---------------------------- MODULE Spec2Model ----------------------------
(***************************************************************************)
(* Roster builder of the double-blind peer-review workflow                 *)
(* (generate_student_and_mapping.py): the identity normalizer, the         *)
(* metadata lookup and matcher, and the record builder.                    *)
(*                                                                         *)
(* A string is a sequence of characters; a character is a one-character    *)
(* TLA+ string, except for the two non-ASCII characters "KELVIN" (U+212A,  *)
(* whose lower case is the ASCII letter k) and "e_acute" (U+00E9).         *)
(* Python's None for a text, a title or a match is the empty sequence:     *)
(* the code only ever tests these values for truthiness.                   *)
(***************************************************************************)
EXTENDS Integers, Sequences, FiniteSets, TLC

\* ------------------------------------------------------------ characters

LowerLetters == <<"a", "b", "c", "d", "e", "f", "g", "h", "i", "j", "k", "l", "m",
                  "n", "o", "p", "q", "r", "s", "t", "u", "v", "w", "x", "y", "z">>

UpperLetters == <<"A", "B", "C", "D", "E", "F", "G", "H", "I", "J", "K", "L", "M",
                  "N", "O", "P", "Q", "R", "S", "T", "U", "V", "W", "X", "Y", "Z">>

DigitChars == <<"0", "1", "2", "3", "4", "5", "6", "7", "8", "9">>

Range(s) == {s[k] : k \in 1..Len(s)}

LowerSet == Range(LowerLetters)

UpperSet == Range(UpperLetters)

DigitSet == Range(DigitChars)

IsLowerAscii(c) == c \in LowerSet

IsUpperAscii(c) == c \in UpperSet

IsDigit(c) == c \in DigitSet

\* [a-z0-9]
IsLowerAlnum(c) == c \in LowerSet \/ c \in DigitSet

\* \w of Python's re on str: letters, digits and the underscore
IsWordChar(c) ==
    IsLowerAscii(c) \/ IsUpperAscii(c) \/ IsDigit(c) \/ c \in {"_", "KELVIN", "e_acute"}

IsSpace(c) == c \in {" ", "\t", "\n"}

\* the lower-case letter of each upper-case ASCII letter, and the converse
LowerOf == [c \in UpperSet |-> LowerLetters[CHOOSE k \in 1..26 : UpperLetters[k] = c]]

UpperOf == [c \in LowerSet |-> UpperLetters[CHOOSE k \in 1..26 : LowerLetters[k] = c]]

\* str.lower() on one character
LowerChar(c) ==
    IF IsUpperAscii(c) THEN LowerOf[c] ELSE IF c = "KELVIN" THEN "k" ELSE c

\* str.upper() on one character
UpperChar(c) ==
    IF IsLowerAscii(c) THEN UpperOf[c] ELSE IF c = "e_acute" THEN "E_ACUTE" ELSE c

\* ------------------------------------------------------ string primitives

Lower(s) == [k \in 1..Len(s) |-> LowerChar(s[k])]

Upper(s) == [k \in 1..Len(s) |-> UpperChar(s[k])]

\* s[a..b-1] of Python, 1-based here: the characters a..b
Slice(s, a, b) == IF a > b THEN <<>> ELSE SubSeq(s, a, b)

\* `sub in s` for strings
Contains(s, sub) ==
    \E k \in 0..(Len(s) - Len(sub)) : Slice(s, k + 1, k + Len(sub)) = sub

StartsWith(s, pre) == Len(s) >= Len(pre) /\ Slice(s, 1, Len(pre)) = pre

\* the characters of s, in order, that belong to the set keep
KeepChars(s, keep) == SelectSeq(s, LAMBDA c : c \in keep)

LowerAlnumChars == LowerSet \cup DigitSet

AsciiAlnumChars == LowerAlnumChars \cup UpperSet

\* str.strip()
Strip(s) ==
    IF \A k \in 1..Len(s) : IsSpace(s[k]) THEN <<>>
    ELSE LET a == CHOOSE k \in 1..Len(s) :
                      ~IsSpace(s[k]) /\ \A j \in 1..(k - 1) : IsSpace(s[j])
             b == CHOOSE k \in 1..Len(s) :
                      ~IsSpace(s[k]) /\ \A j \in (k + 1)..Len(s) : IsSpace(s[j])
         IN  SubSeq(s, a, b)

RECURSIVE DigitsOf(_)
\* the decimal digits of a natural number
DigitsOf(n) ==
    IF n < 10 THEN <<DigitChars[n + 1]>>
    ELSE DigitsOf(n \div 10) \o <<DigitChars[(n % 10) + 1]>>

RECURSIVE ZeroPad(_, _)
ZeroPad(s, width) == IF Len(s) >= width THEN s ELSE ZeroPad(<<"0">> \o s, width)

\* f"{n:0<width>d}" for n >= 0
FormatInt(n, width) == ZeroPad(DigitsOf(n), width)

\* the length of the longest run of characters of the set cs that starts at k
RunLen(s, k, cs) ==
    IF k > Len(s) \/ s[k] \notin cs THEN 0
    ELSE LET stops == {j \in k..Len(s) : s[j] \notin cs}
         IN  IF stops = {} THEN Len(s) - k + 1
             ELSE (CHOOSE j \in stops : \A h \in stops : j <= h) - k

Min(a, b) == IF a <= b THEN a ELSE b

\* PurePath.stem: the name without its last suffix
Stem(name) ==
    LET dots == {k \in 1..Len(name) : name[k] = "."}
        last == CHOOSE k \in dots : \A h \in dots : h <= k
    IN  IF dots = {} THEN name
        ELSE IF last > 1 /\ last < Len(name) THEN SubSeq(name, 1, last - 1) ELSE name

\* ------------------------------------------------------ identity normalizer

\* normalize_value with the character class [^a-zA-Z0-9] and no lower-casing
normalize_value_keeps_upper(value) == KeepChars(value, AsciiAlnumChars)

\* re.sub(r"[^a-z0-9]", "", value.lower())
normalize_value(value) == KeepChars(Lower(value), LowerAlnumChars)

\* --------------------------------------------------------- title extraction

RECURSIVE SplitLines(_)
\* text.split('\n')
SplitLines(text) ==
    LET nl == {k \in 1..Len(text) : text[k] = "\n"}
    IN  IF nl = {} THEN <<text>>
        ELSE LET first == CHOOSE k \in nl : \A h \in nl : k <= h
             IN  <<Slice(text, 1, first - 1)>>
                     \o SplitLines(Slice(text, first + 1, Len(text)))

skip_keywords ==
    { <<"p", "a", "g", "e">>, <<"d", "a", "t", "e">>,
      <<"a", "u", "t", "h", "o", "r">>,
      <<"a", "b", "s", "t", "r", "a", "c", "t">>,
      <<"t", "a", "b", "l", "e", " ", "o", "f">>,
      <<"c", "o", "n", "t", "e", "n", "t", "s">>,
      <<"u", "n", "i", "v", "e", "r", "s", "i", "t", "y">>,
      <<"d", "e", "p", "a", "r", "t", "m", "e", "n", "t">>,
      <<"s", "u", "b", "m", "i", "t", "t", "e", "d">>,
      <<"c", "o", "p", "y", "r", "i", "g", "h", "t">> }

\* str.isupper(): some cased character, and no lower-case one
IsUpperStr(s) ==
    /\ \E k \in 1..Len(s) : IsUpperAscii(s[k]) \/ s[k] = "KELVIN"
    /\ \A k \in 1..Len(s) : ~(IsLowerAscii(s[k]) \/ s[k] = "e_acute")

\* len(line.split())
WordCount(s) ==
    Cardinality({k \in 1..Len(s) : ~IsSpace(s[k]) /\ (k = 1 \/ IsSpace(s[k - 1]))})

\* the number of leading lines extract_title_from_pdf looks at
TitleScanLines == 30

\* a title line is longer than this
MinTitleLen == 10

\* and shorter than this
MaxTitleLen == 200

TitleLike(line) ==
    /\ Len(line) > MinTitleLen
    /\ Len(line) < MaxTitleLen
    /\ \A kw \in skip_keywords : ~Contains(Lower(line), kw)
    /\ (~IsUpperStr(line) \/ WordCount(line) <= 5)

\* The title line of a document's extracted text; <<>> (None) when there
\* is no text or no title-like line among the first TitleScanLines lines.
extract_title_from_pdf(text) ==
    IF text = <<>> THEN <<>>
    ELSE LET all == SplitLines(text)
             lines == [k \in 1..Min(Len(all), TitleScanLines) |-> Strip(all[k])]
             hits == {k \in 1..Len(lines) : TitleLike(lines[k])}
         IN  IF hits = {} THEN <<>>
             ELSE lines[CHOOSE k \in hits : \A h \in hits : k <= h]

\* ---------------------------------------------------------- metadata lookup
\* The lookup is a dict, which keeps insertion order: a sequence of
\* [key, record] entries with pairwise distinct keys.

Keys(metadata) == {metadata[k].key : k \in 1..Len(metadata)}

\* metadata[key], for a key of the lookup
Lookup(metadata, key) ==
    metadata[CHOOSE k \in 1..Len(metadata) : metadata[k].key = key].record

\* metadata[key] = record: the last write wins
SetDefault_overwrite(metadata, key, record) ==
    IF key \in Keys(metadata)
    THEN [k \in 1..Len(metadata) |->
              IF metadata[k].key = key THEN [key |-> key, record |-> record]
              ELSE metadata[k]]
    ELSE Append(metadata, [key |-> key, record |-> record])

\* dict.setdefault: insert if absent
SetDefault(metadata, key, record) ==
    IF key \in Keys(metadata) THEN metadata
    ELSE Append(metadata, [key |-> key, record |-> record])

IdPrefix == <<"i", "d", ":">>

\* the body of load_metadata's loop, for one row
AddRow(metadata, row) ==
    LET proposal_id == Strip(row.proposal_id)
        author == Strip(row.author_name)
        title == Strip(row.proposal_title)
        record == [proposal_id |-> proposal_id, author_name |-> author,
                   proposal_title |-> title]
        m1 == IF title # <<>>
              THEN SetDefault(metadata, normalize_value(title), record)
              ELSE metadata
    IN  IF proposal_id = <<>> /\ title = <<>> THEN metadata
        ELSE IF proposal_id # <<>>
             THEN SetDefault(m1, IdPrefix \o Lower(proposal_id), record)
             ELSE m1

RECURSIVE AddRows(_, _)
AddRows(metadata, rows) ==
    IF rows = <<>> THEN metadata
    ELSE AddRows(AddRow(metadata, Head(rows)), Tail(rows))

\* load_metadata: the empty lookup when the file does not exist
load_metadata(csv) == IF ~csv.exists THEN <<>> ELSE AddRows(<<>>, csv.rows)

\* ---------------------------------------------------------- metadata matcher

\* the rightmost P or p followed by a digit, with the digits that follow
SearchProposalId_rightmost(stem) ==
    LET hits == {k \in 1..Len(stem) :
                     stem[k] \in {"P", "p"} /\ RunLen(stem, k + 1, DigitSet) > 0}
    IN  IF hits = {} THEN <<>>
        ELSE LET k == CHOOSE h \in hits : \A g \in hits : h >= g
             IN  SubSeq(stem, k, k + RunLen(stem, k + 1, DigitSet))

\* re.search(r"(P\d+)", stem, re.IGNORECASE).group(1): the leftmost P or p
\* followed by a digit, with all the digits that follow; <<>> when none
SearchProposalId(stem) ==
    LET hits == {k \in 1..Len(stem) :
                     stem[k] \in {"P", "p"} /\ RunLen(stem, k + 1, DigitSet) > 0}
    IN  IF hits = {} THEN <<>>
        ELSE LET k == CHOOSE h \in hits : \A g \in hits : h <= g
             IN  SubSeq(stem, k, k + RunLen(stem, k + 1, DigitSet))

stop_words ==
    { <<"t", "h", "e">>, <<"a">>, <<"a", "n">>, <<"a", "n", "d">>, <<"o", "r">>,
      <<"b", "u", "t">>, <<"i", "n">>, <<"o", "n">>, <<"a", "t">>, <<"t", "o">>,
      <<"f", "o", "r">>, <<"o", "f">>, <<"w", "i", "t", "h">>, <<"b", "y">> }

\* set(re.findall(r'\b[a-z0-9]+\b', s)): the maximal runs of [a-z0-9] that
\* have no word character next to them
Words(s) ==
    LET starts == {k \in 1..Len(s) :
                      IsLowerAlnum(s[k]) /\ (k = 1 \/ ~IsLowerAlnum(s[k - 1]))}
        last(k) == k + RunLen(s, k, LowerAlnumChars) - 1
        bounded(k) == /\ (k = 1 \/ ~IsWordChar(s[k - 1]))
                      /\ (last(k) = Len(s) \/ ~IsWordChar(s[last(k) + 1]))
    IN  {SubSeq(s, k, last(k)) : k \in {h \in starts : bounded(h)}}

\* the substring test of the partial title match
PartialMatch(normalized_pdf_title, key) ==
    Contains(key, normalized_pdf_title) \/ Contains(normalized_pdf_title, key)

\* the word-overlap test with match_ratio > 0.5
WordMatch_strict(pdf_title, record) ==
    LET pdf_words == Words(Lower(pdf_title)) \ stop_words
        meta_words == Words(Lower(record.proposal_title)) \ stop_words
        common_words == pdf_words \cap meta_words
    IN  /\ pdf_words # {}
        /\ meta_words # {}
        /\ 2 * Cardinality(common_words)
               > Min(Cardinality(pdf_words), Cardinality(meta_words))

\* the word-overlap test: match_ratio >= 0.5, the ratio being
\* len(common_words) / min(len(pdf_words), len(meta_words))
WordMatch(pdf_title, record) ==
    LET pdf_words == Words(Lower(pdf_title)) \ stop_words
        meta_words == Words(Lower(record.proposal_title)) \ stop_words
        common_words == pdf_words \cap meta_words
    IN  /\ pdf_words # {}
        /\ meta_words # {}
        /\ 2 * Cardinality(common_words)
               >= Min(Cardinality(pdf_words), Cardinality(meta_words))

IsIdKey(key) == StartsWith(key, IdPrefix)

NoMatch == [method |-> "none", record |-> <<>>]

RECURSIVE ScanTitles(_, _, _)
\* the loop over metadata.items() from entry k on: for each title key in
\* insertion order, the partial match and then the word-overlap match
ScanTitles(metadata, pdf_title, k) ==
    IF k > Len(metadata) THEN NoMatch
    ELSE LET key == metadata[k].key
             record == metadata[k].record
         IN  IF IsIdKey(key) THEN ScanTitles(metadata, pdf_title, k + 1)
             ELSE IF PartialMatch(normalize_value(pdf_title), key)
                  THEN [method |-> "partial", record |-> <<record>>]
                  ELSE IF WordMatch(pdf_title, record)
                       THEN [method |-> "word", record |-> <<record>>]
                       ELSE ScanTitles(metadata, pdf_title, k + 1)

\* match_metadata looking the raw stem up, not its normalized form
MatchResult_raw_stem(pdf, metadata) ==
    LET stem == Stem(pdf.name)
        found == SearchProposalId(stem)
        id_key == IdPrefix \o Lower(found)
        pdf_title == extract_title_from_pdf(pdf.text)
        normalized_pdf_title == normalize_value(pdf_title)
    IN  IF metadata = <<>> THEN NoMatch
        ELSE IF stem \in Keys(metadata)
        THEN [method |-> "filename", record |-> <<Lookup(metadata, stem)>>]
        ELSE IF found # <<>> /\ id_key \in Keys(metadata)
        THEN [method |-> "id", record |-> <<Lookup(metadata, id_key)>>]
        ELSE IF pdf_title = <<>> THEN NoMatch
        ELSE IF normalized_pdf_title \in Keys(metadata)
        THEN [method |-> "content", record |-> <<Lookup(metadata, normalized_pdf_title)>>]
        ELSE ScanTitles(metadata, pdf_title, 1)

\* match_metadata without the test `if pdf_title:`
MatchResult_no_title_guard(pdf, metadata) ==
    LET stem == Stem(pdf.name)
        normalized_title == normalize_value(stem)
        found == SearchProposalId(stem)
        id_key == IdPrefix \o Lower(found)
        pdf_title == extract_title_from_pdf(pdf.text)
        normalized_pdf_title == normalize_value(pdf_title)
    IN  IF metadata = <<>> THEN NoMatch
        ELSE IF normalized_title \in Keys(metadata)
        THEN [method |-> "filename", record |-> <<Lookup(metadata, normalized_title)>>]
        ELSE IF found # <<>> /\ id_key \in Keys(metadata)
        THEN [method |-> "id", record |-> <<Lookup(metadata, id_key)>>]
        ELSE IF normalized_pdf_title \in Keys(metadata)
        THEN [method |-> "content", record |-> <<Lookup(metadata, normalized_pdf_title)>>]
        ELSE ScanTitles(metadata, pdf_title, 1)

\* match_metadata with the return statement that produced the result:
\* "filename", "id", "content" (exact content title), "partial", "word"
\* or "none"; the record is <<r>>, or <<>> for None.
MatchResult(pdf, metadata) ==
    LET stem == Stem(pdf.name)
        normalized_title == normalize_value(stem)
        found == SearchProposalId(stem)
        id_key == IdPrefix \o Lower(found)
        pdf_title == extract_title_from_pdf(pdf.text)
        normalized_pdf_title == normalize_value(pdf_title)
    IN  IF metadata = <<>> THEN NoMatch
        ELSE IF normalized_title \in Keys(metadata)
        THEN [method |-> "filename", record |-> <<Lookup(metadata, normalized_title)>>]
        ELSE IF found # <<>> /\ id_key \in Keys(metadata)
        THEN [method |-> "id", record |-> <<Lookup(metadata, id_key)>>]
        ELSE IF pdf_title = <<>> THEN NoMatch
        ELSE IF normalized_pdf_title \in Keys(metadata)
        THEN [method |-> "content", record |-> <<Lookup(metadata, normalized_pdf_title)>>]
        ELSE ScanTitles(metadata, pdf_title, 1)

match_metadata(pdf, metadata) == MatchResult(pdf, metadata).record

\* ------------------------------------------------------------ record builder

\* re.match(r"(<letter>\d+)", s).group(1): the letter at the start of s
\* with the digits that follow it; <<>> when s does not start that way
MatchIdAtStart(s, letter) ==
    IF Len(s) >= 2 /\ s[1] = letter /\ IsDigit(s[2])
    THEN SubSeq(s, 1, 1 + RunLen(s, 2, DigitSet))
    ELSE <<>>

\* extract_student_id with re.search in place of re.match
extract_student_id_anywhere(filename, fallback) ==
    LET stem == Upper(Stem(filename))
        hits == {k \in 1..Len(stem) :
                     stem[k] = "S" /\ RunLen(stem, k + 1, DigitSet) > 0}
    IN  IF hits = {} THEN fallback
        ELSE LET k == CHOOSE h \in hits : \A g \in hits : h <= g
             IN  SubSeq(stem, k, k + RunLen(stem, k + 1, DigitSet))

extract_student_id(filename, fallback) ==
    LET found == MatchIdAtStart(Upper(Stem(filename)), "S")
    IN  IF found # <<>> THEN found ELSE fallback

extract_proposal_id(stem, fallback) ==
    LET found == MatchIdAtStart(Upper(stem), "P")
    IN  IF found # <<>> THEN found ELSE fallback

\* the candidate without zero padding: f"{student_prefix}{index}"
StudentCandidate_unpadded(prefix, n) == prefix \o DigitsOf(n)

\* f"{student_prefix}{index:02d}"
StudentCandidate(prefix, n) == prefix \o FormatInt(n, 2)

\* f"{proposal_prefix}{index:03d}"
ProposalCandidate(prefix, n) == prefix \o FormatInt(n, 3)

\* -------------------------------------------------------------- key generator

PdfSuffix == <<".", "p", "d", "f">>

\* SOURCE_TYPES, in the order of the dict
SOURCE_TYPES ==
    << [id |-> <<"H", "1">>, type |-> <<"H", "u", "m", "a", "n">>],
       [id |-> <<"H", "2">>, type |-> <<"H", "u", "m", "a", "n">>],
       [id |-> <<"A", "I", "1">>, type |-> <<"A", "I">>],
       [id |-> <<"A", "I", "2">>, type |-> <<"A", "I">>] >>

\* [f"Review_{i}" for i in range(1, len(SOURCE_TYPES) + 1)]
PUBLIC_REVIEW_NAMES ==
    [i \in 1..Len(SOURCE_TYPES) |-> <<"R", "e", "v", "i", "e", "w", "_">> \o DigitsOf(i)]

\* f"{student_id}_{source_id}.pdf"
ReviewFileName(student_id, source_id) == student_id \o <<"_">> \o source_id \o PdfSuffix

RECURSIVE MissingFrom(_, _, _)
\* the loops of validate_review_files from pair n on, the pairs being
\* counted student by student and, within a student, source by source
MissingFrom(student_ids, directory, n) ==
    IF n >= Len(student_ids) * Len(SOURCE_TYPES) THEN <<>>
    ELSE LET student_id == student_ids[(n \div Len(SOURCE_TYPES)) + 1]
             source_id == SOURCE_TYPES[(n % Len(SOURCE_TYPES)) + 1].id
             expected_file == ReviewFileName(student_id, source_id)
         IN  (IF expected_file \notin directory THEN <<expected_file>> ELSE <<>>)
                 \o MissingFrom(student_ids, directory, n + 1)

\* validate_review_files stopping at the first missing file
validate_review_files_first_only(student_ids, directory) ==
    LET missing == MissingFrom(student_ids, directory, 0)
    IN  IF missing = <<>> THEN <<>> ELSE <<Head(missing)>>

\* validate_review_files; directory is the set of the names of the files
\* that exist in SOURCE_DIR
validate_review_files(student_ids, directory) == MissingFrom(student_ids, directory, 0)

\* row[0].strip() for row in reader if row and row[0].strip()
StudentIdsOf(rows) ==
    LET kept == SelectSeq(rows, LAMBDA row : row # <<>> /\ Strip(row[1]) # <<>>)
    IN  [k \in 1..Len(kept) |-> Strip(kept[k][1])]

\* missing_files[:20]
MaxListed == 20

\* the four key entries of a student, the true source being taken at the
\* position of the public name in PUBLIC_REVIEW_NAMES
KeyEntries_source_by_label(student_id, randomized_public_names) ==
    [i \in 1..Len(SOURCE_TYPES) |->
        [ Student_ID |-> student_id,
          Internal_Name |-> ReviewFileName(student_id, SOURCE_TYPES[i].id),
          True_Source |->
              SOURCE_TYPES[CHOOSE j \in 1..Len(SOURCE_TYPES) :
                               PUBLIC_REVIEW_NAMES[j] = randomized_public_names[i]].type,
          Public_Review_Name |-> randomized_public_names[i] ]]

\* the four key entries of a student: internal_sources[i] paired with
\* randomized_public_names[i]
KeyEntries(student_id, randomized_public_names) ==
    [i \in 1..Len(SOURCE_TYPES) |->
        [ Student_ID |-> student_id,
          Internal_Name |-> ReviewFileName(student_id, SOURCE_TYPES[i].id),
          True_Source |-> SOURCE_TYPES[i].type,
          Public_Review_Name |-> randomized_public_names[i] ]]

\* the outcomes of random.shuffle on the list names: its orderings
ShufflesOf(names) ==
    {[i \in 1..Len(names) |-> names[f[i]]] : f \in Permutations(1..Len(names))}

\* the outcomes of random.shuffle on a copy of PUBLIC_REVIEW_NAMES
Shuffles == ShufflesOf(PUBLIC_REVIEW_NAMES)

\* ------------------------------------------------------------ roster tables

\* the characters of the student IDs in the order of their code points
CodeOrder == <<" ", ".">> \o DigitChars \o UpperLetters \o <<"_">> \o LowerLetters

Ord(c) == CHOOSE k \in 1..Len(CodeOrder) : CodeOrder[k] = c

RECURSIVE StrLess(_, _)
\* a < b for two Python strings
StrLess(a, b) ==
    IF b = <<>> THEN FALSE
    ELSE IF a = <<>> THEN TRUE
    ELSE IF a[1] # b[1] THEN Ord(a[1]) < Ord(b[1])
    ELSE StrLess(Tail(a), Tail(b))

\* write_students_csv: the rows after the header. A later record of a
\* student replaces the author name of an earlier one when it has a name;
\* the rows are sorted by student ID.
write_students_csv(records) ==
    LET Of(id) == {k \in 1..Len(records) : records[k].student_id = id}
        Named(id) == {k \in Of(id) : records[k].author_name # <<>>}
        Last(ks) == CHOOSE k \in ks : \A j \in ks : j <= k
        First(ks) == CHOOSE k \in ks : \A j \in ks : k <= j
        Author(id) ==
            IF Named(id) # {} THEN records[Last(Named(id))].author_name ELSE <<>>
        distinct == SelectSeq([k \in 1..Len(records) |-> k],
                              LAMBDA k : k = First(Of(records[k].student_id)))
        unsorted == [n \in 1..Len(distinct) |->
                        <<records[distinct[n]].student_id,
                          Author(records[distinct[n]].student_id)>>]
    IN  SortSeq(unsorted, LAMBDA a, b : StrLess(a[1], b[1]))

\* write_mapping_csv: the rows after the header, one per record, in the
\* order of the records. csv.writer quotes a cell that holds a comma, a quote
\* or a line break, and a reader of CSV undoes the quoting: the cells of a
\* row are the five strings.
write_mapping_csv(records) ==
    [k \in 1..Len(records) |->
        <<records[k].proposal_id, records[k].student_id, records[k].author_name,
          records[k].proposal_title, records[k].filename>>]

NA_ == <<"N", "A">>

N_A_ == <<"N", "/", "A">>

NaN_ == <<"N", "a", "N">>

nan_ == <<"n", "a", "n">>

null_ == <<"n", "u", "l", "l">>

NULL_ == <<"N", "U", "L", "L">>

None_ == <<"N", "o", "n", "e">>

\* strings that pd.read_csv reads as a missing value (among its defaults)
NaStrings ==
    { <<>>, NA_, N_A_, NaN_, nan_, null_, NULL_, None_ }

IsNa(cell) == cell \in NaStrings

\* a cell pd.read_csv parses as an integer: decimal digits only
IsIntText(cell) == cell # <<>> /\ \A k \in 1..Len(cell) : IsDigit(cell[k])

RECURSIVE DropZeros(_)
\* str(int(digits))
DropZeros(digits) ==
    IF Len(digits) > 1 /\ digits[1] = "0" THEN DropZeros(Tail(digits)) ELSE digits

\* the dtype pd.read_csv infers for a column from its cells: int64 when
\* every cell is an integer, float64 when every cell is an integer or
\* missing, object otherwise
ColumnKind(cells) ==
    IF cells # <<>> /\ \A k \in 1..Len(cells) : IsIntText(cells[k]) THEN "int64"
    ELSE IF \A k \in 1..Len(cells) : IsIntText(cells[k]) \/ IsNa(cells[k]) THEN "float64"
    ELSE "object"

\* str(row[column]) for a cell of a column of the given dtype
StrOfCell(kind, cell) ==
    IF IsNa(cell) THEN nan_
    ELSE IF kind = "int64" THEN DropZeros(cell)
    ELSE IF kind = "float64" THEN DropZeros(cell) \o <<".", "0">>
    ELSE cell

\* the columns of proposal_mapping.csv, in the order of the header
MappingColumns ==
    <<"Proposal_ID", "Student_ID", "Author_Name", "Proposal_Title", "Proposal_Filename">>

\* pd.read_csv(PROPOSAL_MAPPING_FILE) followed by df.iterrows(): for each
\* row, str(row[column]) of every column
read_csv(rows) ==
    LET Column(c) == [k \in 1..Len(rows) |-> rows[k][c]]
    IN  [k \in 1..Len(rows) |->
            [c \in 1..Len(MappingColumns) |-> StrOfCell(ColumnKind(Column(c)), rows[k][c])]]

\* what the readers take of a row of the table: str(row[...]).strip() of
\* Proposal_ID, Student_ID and Proposal_Filename
RowTriple(row) ==
    [student_id |-> Strip(row[2]), proposal_id |-> Strip(row[1]), filename |-> Strip(row[5])]

\* ------------------------------------------------------------- human reviews

\* normalize_text
normalize_text(value) == KeepChars(Lower(value), LowerAlnumChars)

\* the columns of a row of the table, as read_csv gives them
ProposalIdOf(row) == Strip(row[1])

StudentIdOf(row) == Strip(row[2])

TitleOf(row) == Strip(row[4])

FilenameOf(row) == Strip(row[5])

\* the lookup with the first row of a proposal ID kept
MappedStudent_first(rows, proposal_id) ==
    LET at == {k \in 1..Len(rows) :
                  ProposalIdOf(rows[k]) # <<>> /\ ProposalIdOf(rows[k]) = proposal_id}
    IN  IF at = {} THEN <<>>
        ELSE StudentIdOf(rows[CHOOSE k \in at : \A j \in at : k <= j])

\* create_proposal_mapping, mapping.get(proposal_id): the student of the
\* last row of the table with that proposal ID, <<>> for None
MappedStudent(rows, proposal_id) ==
    LET at == {k \in 1..Len(rows) :
                  ProposalIdOf(rows[k]) # <<>> /\ ProposalIdOf(rows[k]) = proposal_id}
    IN  IF at = {} THEN <<>>
        ELSE StudentIdOf(rows[CHOOSE k \in at : \A j \in at : j <= k])

\* create_proposal_mapping, title_mapping.get(normalized): the student of
\* the first row of the table whose normalized title is the key
TitledStudent(rows, normalized) ==
    LET at == {k \in 1..Len(rows) :
                  TitleOf(rows[k]) # <<>> /\ normalize_text(TitleOf(rows[k])) = normalized}
    IN  IF at = {} THEN <<>>
        ELSE StudentIdOf(rows[CHOOSE k \in at : \A j \in at : k <= j])

\* pd.read_csv(CSV_FILE) and df.iterrows(): str(row[...]).strip() of the
\* Proposal ID and the Proposal Title columns, and the review content
ReviewRows(lines) ==
    LET ids == [k \in 1..Len(lines) |-> lines[k].proposal_id]
        titles == [k \in 1..Len(lines) |-> lines[k].title]
    IN  [k \in 1..Len(lines) |->
            [proposal_id |-> Strip(StrOfCell(ColumnKind(ids), lines[k].proposal_id)),
             title |-> Strip(StrOfCell(ColumnKind(titles), lines[k].title)),
             content |-> lines[k].content]]

\* process_reviews: the student a row of the review CSV is given to, <<>>
\* when the row is skipped
StudentOfRow(rows, row) ==
    IF row.proposal_id = <<>> \/ row.proposal_id = nan_ THEN <<>>
    ELSE IF MappedStudent(rows, row.proposal_id) # <<>>
    THEN MappedStudent(rows, row.proposal_id)
    ELSE TitledStudent(rows, normalize_text(row.title))

\* reviews_by_proposal[student_id].append(...) on the dict kept as the
\* sequence of its items
AppendReview(groups, id, content) ==
    IF \E g \in 1..Len(groups) : groups[g].student_id = id
    THEN [g \in 1..Len(groups) |->
             IF groups[g].student_id = id
             THEN [groups[g] EXCEPT !.reviews = Append(@, content)]
             ELSE groups[g]]
    ELSE Append(groups, [student_id |-> id, reviews |-> <<content>>])

RECURSIVE GroupFrom(_, _, _, _)
\* the loop over df.iterrows() from row k on
GroupFrom(rows, df, k, groups) ==
    IF k > Len(df) THEN groups
    ELSE LET id == StudentOfRow(rows, df[k])
         IN  GroupFrom(rows, df, k + 1,
                       IF id = <<>> THEN groups ELSE AppendReview(groups, id, df[k].content))

DuplicateNote ==
    <<"\n", "\n", "[", "N", "o", "t", "e", ":", " ", "O", "n", "l", "y", " ",
      "o", "n", "e", " ", "h", "u", "m", "a", "n", " ", "r", "e", "v", "i",
      "e", "w", " ", "w", "a", "s", " ", "s", "u", "b", "m", "i", "t", "t",
      "e", "d", ".", " ", "T", "h", "i", "s", " ", "i", "s", " ", "a", " ",
      "d", "u", "p", "l", "i", "c", "a", "t", "e", " ", "o", "f", " ", "R",
      "e", "v", "i", "e", "w", " ", "1", " ", "s", "o", " ", "t", "h", "a",
      "t", " ", "t", "h", "e", " ", "w", "o", "r", "k", "f", "l", "o", "w",
      " ", "r", "e", "t", "a", "i", "n", "s", " ", "f", "o", "u", "r", " ",
      "t", "o", "t", "a", "l", " ", "r", "e", "v", "i", "e", "w", "s", ".",
      "]">>

\* the reviews saved for a student: the first two, the second being the
\* first with the note when there is only one
ReviewsToSave_last_two(reviews) ==
    IF Len(reviews) < 2 THEN <<reviews[1], reviews[1] \o DuplicateNote>>
    ELSE SubSeq(reviews, Len(reviews) - 1, Len(reviews))

ReviewsToSave(reviews) ==
    IF Len(reviews) < 2 THEN <<reviews[1], reviews[1] \o DuplicateNote>>
    ELSE SubSeq(reviews, 1, 2)

TxtSuffix == <<".", "t", "x", "t">>

\* f"{student_id}_H{review_number}.pdf" and its .txt
SlotFile(id, source_id, suffix) == id \o <<"_">> \o source_id \o suffix

\* save_review_as_pdf that writes the text file only
SaveInto_text_only(dir, id, source_id, is_pdf) == dir \cup {SlotFile(id, source_id, TxtSuffix)}

\* save_review_as_pdf: the text file is written, and when a converter
\* succeeds the PDF file is written and the text file removed
SaveInto(dir, id, source_id, is_pdf) ==
    IF is_pdf
    THEN (dir \ {SlotFile(id, source_id, TxtSuffix)}) \cup {SlotFile(id, source_id, PdfSuffix)}
    ELSE dir \cup {SlotFile(id, source_id, TxtSuffix)}

\* df.to_csv of the table pd.read_csv gave: a missing value is written as
\* the empty cell, a number as its digits
ToCsvCell(kind, cell) == IF IsNa(cell) THEN <<>> ELSE StrOfCell(kind, cell)

\* update_proposal_mapping_reviewer on the five columns of the roster
\* builder: the file is written again from the frame when a row of the
\* frame has the student ID (the reviewer columns are not represented)
update_proposal_mapping_reviewer(file, id) ==
    LET Column(c) == [k \in 1..Len(file.rows) |-> file.rows[k][c]]
    IN  IF file.exists /\ ColumnKind(Column(2)) = "object"
            /\ \E k \in 1..Len(file.rows) : file.rows[k][2] = id
        THEN [file EXCEPT !.rows =
                 [k \in 1..Len(file.rows) |->
                     [c \in 1..Len(MappingColumns) |->
                         ToCsvCell(ColumnKind(Column(c)), file.rows[k][c])]]]
        ELSE file

\* ------------------------------------------------------------- AI reviews

\* FORBIDDEN_DASHES: the hyphen-minus, the en dash and the em dash, the last
\* two written as one character each
FORBIDDEN_DASHES == {"-", "EN_DASH", "EM_DASH"}

\* the bullet marker: two spaces, dash, space
BulletMarker == <<" ", " ", "-", " ">>

\* placeholder
BulletPlaceholder ==
    <<"<", "<", "B", "U", "L", "L", "E", "T", "_", "D", "A", "S", "H", "_",
      "P", "L", "A", "C", "E", "H", "O", "L", "D", "E", "R", ">", ">">>

\* s has sub at position k
HasAt(s, k, sub) == k + Len(sub) - 1 <= Len(s) /\ SubSeq(s, k, k + Len(sub) - 1) = sub

RECURSIVE Join(_, _, _)
\* pieces[a] \o ... \o pieces[b]
Join(pieces, a, b) ==
    IF a > b THEN <<>>
    ELSE IF a = b THEN pieces[a]
    ELSE LET m == (a + b) \div 2 IN Join(pieces, a, m) \o Join(pieces, m + 1, b)

\* text with the occurrences of old, which start at the positions starts and
\* do not overlap, replaced by new
Substitute(text, starts, old, new) ==
    Join([k \in 1..Len(text) |->
            IF k \in starts THEN new
            ELSE IF \E j \in 1..(Len(old) - 1) : (k - j) \in starts THEN <<>>
            ELSE <<text[k]>>],
         1, Len(text))

\* Step 1, re.sub(r"(^|\n)(  - )", rf"\1{placeholder}", text): without
\* re.MULTILINE ^ matches at the start of the text only, and the line break
\* of group 1 is kept
ProtectBullets(text) ==
    LET starts == {k \in 1..Len(text) :
                      (k = 1 \/ text[k - 1] = "\n") /\ HasAt(text, k, BulletMarker)}
    IN  Substitute(text, starts, BulletMarker, BulletPlaceholder)

\* Step 2, re.sub(r"[-–—]", " ", text)
BlankDashes(text) ==
    [k \in 1..Len(text) |-> IF text[k] \in FORBIDDEN_DASHES THEN " " ELSE text[k]]

\* Step 3, text.replace(placeholder, "  - "): no occurrence of the placeholder
\* overlaps another, so every occurrence is replaced
RestoreBullets(text) ==
    LET starts == {k \in 1..Len(text) : HasAt(text, k, BulletPlaceholder)}
    IN  Substitute(text, starts, BulletPlaceholder, BulletMarker)

\* remove_forbidden_dashes
remove_forbidden_dashes(text) ==
    RestoreBullets(BlankDashes(ProtectBullets(text)))

\* load_proposal_mapping, mapping.get(filename): the student ID of the last
\* row of the table whose file name is this one, both cells being non-empty;
\* <<>> when the name is not a key
MappedId(rows, filename) ==
    LET hits == {k \in 1..Len(rows) :
                    FilenameOf(rows[k]) = filename /\ filename # <<>> /\ StudentIdOf(rows[k]) # <<>>}
    IN  IF hits = {} THEN <<>>
        ELSE StudentIdOf(rows[CHOOSE k \in hits : \A j \in hits : j <= k])

\* filename.split("_")[0]
FirstSegment(filename) ==
    LET cuts == {k \in 1..Len(filename) : filename[k] = "_"}
    IN  IF cuts = {} THEN filename
        ELSE SubSeq(filename, 1, (CHOOSE k \in cuts : \A j \in cuts : k <= j) - 1)

\* s.replace(".pdf", "")
WithoutPdf(s) ==
    LET starts == {k \in 1..Len(s) : HasAt(s, k, PdfSuffix)}
    IN  Substitute(s, starts, PdfSuffix, <<>>)

\* find_proposal_files, the student ID of a file that takes the stem of
\* every file the table does not list
AiStudentId_stem(rows, filename) ==
    IF MappedId(rows, filename) # <<>> THEN MappedId(rows, filename) ELSE Stem(filename)

\* find_proposal_files: the student ID of a file, rows being the table
\* pd.read_csv gives, <<>> without proposal_mapping.csv
AiStudentId(rows, filename) ==
    IF MappedId(rows, filename) # <<>> THEN MappedId(rows, filename)
    ELSE IF StartsWith(filename, <<"S">>) /\ Len(FirstSegment(filename)) <= 5
    THEN WithoutPdf(FirstSegment(filename))
    ELSE Stem(filename)

\* find_proposal_files: the (student_id, pdf_file) pairs, sorted
find_proposal_files(dir, file) ==
    IF ~dir.exists THEN <<>>
    ELSE LET rows == IF file.exists THEN read_csv(file.rows) ELSE <<>>
         IN  SortSeq([k \in 1..Len(dir.files) |->
                         [student_id |-> AiStudentId(rows, dir.files[k].name),
                          name |-> dir.files[k].name,
                          text |-> dir.files[k].text]],
                     LAMBDA a, b :
                         \/ StrLess(a.student_id, b.student_id)
                         \/ a.student_id = b.student_id /\ StrLess(a.name, b.name))

\* -------------------------------------------------------------------- inputs

TextWithTitle ==
    <<"A", "b", "s", "t", "r", "a", "c", "t", " ", "o", "f", " ", "w", "o", "r", "k", "\n",
      "G", "r", "a", "p", "h", " ", "N", "e", "u", "r", "a", "l", " ", "P", "7", " ",
      "N", "e", "t", "w", "o", "r", "k", "s", "\n">>

TextWithoutTitle ==
    <<"P", "a", "g", "e", " ", "1", "\n", "s", "h", "o", "r", "t", "\n">>

Pdf(stem, text) == [name |-> stem \o PdfSuffix, text |-> text]

\* The proposal files a data directory may hold, in the order of
\* sorted(data_dir.glob("*.pdf")); the text is what extract_text_from_pdf
\* gives for the file, <<>> when it gives None.
DocPool ==
    << Pdf(<<"P", "0", "1", "0", "_", "g", "n", "n">>, <<>>),
       Pdf(<<"S", "0", "1", "_", "c", "o", "p", "y">>, <<>>),
       Pdf(<<"S", "0", "1", "_", "t", "h", "e", "s", "i", "s">>, <<>>),
       Pdf(<<"S", "0", "2", "_", "o", "t", "h", "e", "r">>, <<>>),
       Pdf(<<"g", "r", "a", "p", "h", "_", "n", "e", "u", "r", "a", "l", "_", "P", "7">>, <<>>),
       Pdf(<<"g", "r", "a", "p", "h", "_", "n", "e", "u", "r", "a", "l", "_",
             "n", "e", "t", "w", "o", "r", "k", "s", "_", "f", "o", "r", "_",
             "t", "r", "a", "f", "f", "i", "c", "_",
             "p", "r", "e", "d", "i", "c", "t", "i", "o", "n">>, <<>>),
       Pdf(<<"m", "y", "_", "S", "0", "2">>, TextWithoutTitle),
       Pdf(<<"p", "r", "o", "p", "o", "s", "a", "l">>, TextWithTitle),
       Pdf(<<"s", "0", "2", "_", "P", "0", "1", "0">>, <<>>) >>

\* the largest number of proposal files in the data directory
MaxDocs == 3

\* the largest number of rows in the metadata file
MaxRows == 2

RECURSIVE Pick(_, _, _)
\* the entries of pool whose positions are in chosen, from position k on
Pick(pool, chosen, k) ==
    IF k > Len(pool) THEN <<>>
    ELSE (IF k \in chosen THEN <<pool[k]>> ELSE <<>>) \o Pick(pool, chosen, k + 1)

\* ensure_data_dir: a non-empty sorted list of distinct files
PdfFileLists ==
    {Pick(DocPool, chosen, 1) :
        chosen \in {c \in SUBSET (1..Len(DocPool)) :
                        Cardinality(c) >= 1 /\ Cardinality(c) <= MaxDocs}}

Row(proposal_id, author, title) ==
    [proposal_id |-> proposal_id, author_name |-> author, proposal_title |-> title]

\* rows of the metadata file, as csv.DictReader gives them (not yet stripped)
RowPool ==
    { Row(<<"P", "0", "1", "0">>, <<"A", "n", "n">>,
          <<"G", "r", "a", "p", "h", " ", "N", "e", "u", "r", "a", "l", " ",
            "N", "e", "t", "w", "o", "r", "k", "s", " ", "f", "o", "r", " ",
            "T", "r", "a", "f", "f", "i", "c", " ",
            "P", "r", "e", "d", "i", "c", "t", "i", "o", "n">>),
      Row(<<>>, <<"B", "o", "b">>,
          <<" ", "N", "e", "u", "r", "a", "l", " ", "M", "e", "t", "h", "o", "d", "s", " ">>),
      Row(<<"P", "7">>, <<"C", "y">>, <<>>),
      Row(<<"P", "0", "1", "1">>, <<"D", "e", "e">>,
          <<"G", "r", "a", "p", "h", " ", "N", "e", "u", "r", "a", "l", " ", "P", "7">>) }

\* The rows of a file are taken pairwise distinct: a row that repeats an
\* earlier one finds both of its keys registered and changes nothing.
RowLists ==
    UNION {{r \in [1..n -> RowPool] : \A a, b \in 1..n : a # b => r[a] # r[b]} :
              n \in 0..MaxRows}

\* the metadata file: absent, or present with its rows
MetadataFiles ==
    {[exists |-> FALSE, rows |-> <<>>]} \cup {[exists |-> TRUE, rows |-> r] : r \in RowLists}

\* --student-prefix, --proposal-prefix, --start-index
Arguments ==
    { [student_prefix |-> <<"S">>, proposal_prefix |-> <<"P">>, start_index |-> 1],
      [student_prefix |-> <<"S">>, proposal_prefix |-> <<"P">>, start_index |-> 0],
      [student_prefix |-> <<"T">>, proposal_prefix |-> <<"Q">>, start_index |-> 99] }

\* ---- inputs of the key generator

\* the student ID of the i-th record of the roster, S01, S02, ...
StudentName(i) == <<"S">> \o FormatInt(i, 2)

\* the largest number of students in a roster of distinct students
MaxStudents == 6

\* the largest number of rows of a roster that list the same student
MaxRepeats == 2

HeaderRow == <<<<"s", "t", "u", "d", "e", "n", "t", "_", "i", "d">>>>

\* the rows of a roster file after the header, as csv.reader gives them:
\* the first n students; S01 on several rows; S02 before S01; and rows with
\* blanks around the ID, a second column, an empty line and a blank cell
RosterRows ==
    {[k \in 1..n |-> <<StudentName(k)>>] : n \in 0..MaxStudents}
        \cup {[k \in 1..n |-> <<StudentName(1)>>] : n \in 2..MaxRepeats}
        \cup { << <<StudentName(2)>>, <<StudentName(1)>> >>,
               << <<<<" ">> \o StudentName(1) \o <<" ">>, <<"x">>>>, <<>>, <<<<" ", " ">>>>,
                  <<StudentName(2)>> >> }

\* students.csv: absent, empty, or a header row and rows
RosterFiles ==
    { [exists |-> FALSE, lines |-> <<>>], [exists |-> TRUE, lines |-> <<>>] }
        \cup {[exists |-> TRUE, lines |-> HeaderRow \o rows] : rows \in RosterRows}

\* the review files of the students S01, S02 and S03
StockedFiles ==
    {ReviewFileName(StudentName(i), SOURCE_TYPES[j].id) :
        i \in 1..3, j \in 1..Len(SOURCE_TYPES)}

\* the files that may be absent from an otherwise complete directory
Removable ==
    { ReviewFileName(StudentName(2), <<"A", "I", "1">>),
      ReviewFileName(StudentName(1), <<"H", "1">>) }

\* SOURCE_DIR: the names of the files in it
Directories == {StockedFiles \ gone : gone \in SUBSET Removable} \cup {{}}

NoKeyFile == [exists |-> FALSE, rows |-> <<>>]

\* Master_Key.csv before the run: absent, or left by an earlier run
KeyFiles ==
    { NoKeyFile,
      [exists |-> TRUE,
       rows |-> KeyEntries(<<"S", "9", "9">>, PUBLIC_REVIEW_NAMES)] }

\* --------------------------------------------------------------------- state

VARIABLES
    pc,              \* where the run is: "main", "build", "for", "while", "done",
                     \* or "normalize", "again", "normalized" in NormSpec
    csv,             \* the metadata file
    pdf_files,       \* the proposal files, as ensure_data_dir returns them
    args,            \* the command line arguments
    metadata,        \* the lookup load_metadata built
    records,         \* build_records: the records so far
    seen_students,   \* build_records: the student IDs assigned so far
    index,           \* build_records: the running index
    pos,             \* build_records: the number of files the for loop has taken
    student_id,      \* build_records: the student ID of the current file
    matched,         \* build_records: what match_metadata returned for each
                     \* record, with the return statement that produced it
    value,           \* NormSpec: the string to normalize
    normalized,      \* NormSpec: normalize_value(value)
    renormalized,    \* NormSpec: normalize_value(normalized)
    roster,          \* KeySpec: students.csv
    directory,       \* KeySpec: the names of the files in SOURCE_DIR
    old_key,         \* KeySpec: Master_Key.csv before the run
    key_file,        \* KeySpec: Master_Key.csv
    student_ids,     \* generate_and_randomize_key: the IDs read from the roster
    missing_files,   \* generate_and_randomize_key: what validate_review_files gave
    master_key_data, \* generate_and_randomize_key: the key entries so far
    printed,         \* the missing file names printed, and the count the
                     \* "... and N more" line gives
    exit_status,     \* the exit status of the process, -1 while it runs
    error,           \* the ERROR line the run printed, "" when it printed none
    raised,          \* the exception that ended the run uncaught, "" when none
    label_list,      \* KeySpec: the list the global PUBLIC_REVIEW_NAMES is bound to
    names_copy,      \* generate_and_randomize_key: PUBLIC_REVIEW_NAMES[:] of the
                     \* current turn, before random.shuffle
    data_dir,        \* RosterSpec: the data directory and its proposal files
    overwrite,       \* RosterSpec: --force, or the answer y to confirm_overwrite
    students_file,   \* students.csv, the rows after the header
    mapping_file,    \* proposal_mapping.csv, the rows after the header
    table,           \* the rows pd.read_csv gives for proposal_mapping.csv
    review_csv,      \* ReviewSpec: the review CSV export
    read_fails,      \* ReviewSpec: pd.read_csv of proposal_mapping.csv raises
    reviews_by_proposal, \* process_reviews: the items of the dict, in its order
    rev_pos,         \* process_reviews: the students the saving loop has taken
    saved,           \* the calls of save_review_as_pdf, in order, with their result
    success_count,   \* the review files counted as generated
    notice,          \* the request to create or edit proposal_mapping.csv, "" when
                     \* it was not printed
    dash_text,       \* DashSpec: the text given to remove_forbidden_dashes
    cleaned_text,    \* DashSpec: remove_forbidden_dashes(dash_text)
    recleaned_text,  \* DashSpec: remove_forbidden_dashes(cleaned_text)
    proposal_files,  \* main of the AI generator: the (student ID, proposal file)
                     \* pairs, each file with the text extract_text_from_pdf gives
    file_pos,        \* main: the pairs the loop has taken
    processed,       \* main: success_count, the students for whom True was returned
    brief_review_num, \* generate_reviews_for_student: the review with the concise
                     \* prompt, 0 for None
    review_num,      \* generate_reviews_for_student: the reviews the loop has taken
    attempts,        \* the calls of call_ai_api, in order
    result           \* what generate_reviews_for_student returned, "" before

inputVars == <<csv, pdf_files, args>>

buildVars == <<metadata, records, seen_students, index, pos, student_id, matched>>

normVars == <<value, normalized, renormalized>>

keyInputs == <<roster, directory, old_key>>

keyVars == <<roster, directory, old_key, key_file, student_ids, missing_files,
             master_key_data, printed, exit_status, error, raised, label_list,
             names_copy>>

vars == <<pc, csv, pdf_files, args, metadata, records, seen_students, index, pos,
          student_id, matched, value, normalized, renormalized, roster, directory,
          old_key, key_file, student_ids, missing_files, master_key_data, printed,
          exit_status, error, raised, label_list, names_copy, data_dir, overwrite,
          students_file, mapping_file, table, review_csv, read_fails,
          reviews_by_proposal, rev_pos, saved, success_count, notice, dash_text,
          cleaned_text, recleaned_text, proposal_files, file_pos, processed, brief_review_num,
          review_num, attempts, result>>

rosterVars == <<data_dir, overwrite, students_file, mapping_file, table>>

\* the variables of the roster builder's main and of the scripts that read
\* its tables
reviewVars == <<review_csv, read_fails, reviews_by_proposal, rev_pos, saved,
                success_count, notice>>

dashVars == <<dash_text, cleaned_text, recleaned_text>>

aiVars == <<proposal_files, file_pos, processed, brief_review_num, review_num, attempts, result>>

extVars == <<rosterVars, reviewVars, dashVars, aiVars>>

NoFile == [exists |-> FALSE, rows |-> <<>>]

\* the roster builder's main and the readers of its tables are not run
RosterIdle ==
    /\ data_dir = [exists |-> FALSE, files |-> <<>>]
    /\ overwrite = TRUE
    /\ students_file = NoFile
    /\ mapping_file = NoFile
    /\ table = <<>>

\* process_reviews is not run
ReviewIdle ==
    /\ review_csv = [exists |-> FALSE, readable |-> FALSE, has_id_column |-> FALSE,
                     lines |-> <<>>]
    /\ read_fails = FALSE
    /\ reviews_by_proposal = <<>>
    /\ rev_pos = 0
    /\ saved = <<>>
    /\ success_count = 0
    /\ notice = ""

\* remove_forbidden_dashes is not applied on its own
DashIdle ==
    /\ dash_text = <<>>
    /\ cleaned_text = <<>>
    /\ recleaned_text = <<>>

\* generate_reviews_for_student is not run
AiIdle ==
    /\ proposal_files = <<>>
    /\ file_pos = 0
    /\ processed = 0
    /\ brief_review_num = 0
    /\ review_num = 0
    /\ attempts = <<>>
    /\ result = ""

ExtIdle == RosterIdle /\ ReviewIdle /\ DashIdle /\ AiIdle

\* the key generator is not run
KeyIdle ==
    /\ roster = [exists |-> FALSE, lines |-> <<>>]
    /\ directory = {}
    /\ old_key = NoKeyFile
    /\ key_file = NoKeyFile
    /\ student_ids = <<>>
    /\ missing_files = <<>>
    /\ master_key_data = <<>>
    /\ printed = [names |-> <<>>, more |-> 0]
    /\ exit_status = -1
    /\ error = ""
    /\ raised = ""
    /\ label_list = PUBLIC_REVIEW_NAMES
    /\ names_copy = <<>>

Init ==
    /\ KeyIdle
    /\ ExtIdle
    /\ pc = "main"
    /\ csv \in MetadataFiles
    /\ pdf_files \in PdfFileLists
    /\ args \in Arguments
    /\ metadata = <<>>
    /\ records = <<>>
    /\ seen_students = {}
    /\ index = 0
    /\ pos = 0
    /\ student_id = <<>>
    /\ matched = <<>>
    /\ value = <<>>
    /\ normalized = <<>>
    /\ renormalized = <<>>

\* ------------------------------------------------------------------- actions

\* main: metadata = load_metadata(...)
LoadMetadata ==
    /\ pc = "main"
    /\ metadata' = load_metadata(csv)
    /\ pc' = "build"
    /\ UNCHANGED <<inputVars, records, seen_students, index, pos, student_id, matched,
                   normVars, keyVars, extVars>>

\* build_records: records = [], seen_students = set(), index = start_index
BuildRecords ==
    /\ pc = "build"
    /\ records' = <<>>
    /\ seen_students' = {}
    /\ index' = args.start_index
    /\ pos' = 0
    /\ matched' = <<>>
    /\ pc' = "for"
    /\ UNCHANGED <<inputVars, metadata, student_id, normVars, keyVars, extVars>>

\* for pdf in pdf_files: the candidate and the ID found in the file name
NextPdf ==
    /\ pc = "for"
    /\ pos < Len(pdf_files)
    /\ pos' = pos + 1
    /\ student_id' = extract_student_id(pdf_files[pos + 1].name,
                                        StudentCandidate(args.student_prefix, index))
    /\ pc' = "while"
    /\ UNCHANGED <<inputVars, metadata, records, seen_students, index, matched, normVars, keyVars, extVars>>

\* the collision loop without index += 1
Collision_same_index ==
    /\ pc = "while"
    /\ student_id \in seen_students
    /\ student_id' = StudentCandidate(args.student_prefix, index)
    /\ UNCHANGED <<pc, inputVars, metadata, records, seen_students, index, pos, matched,
                   normVars, keyVars, extVars>>

\* while student_id in seen_students: one turn of the loop
Collision ==
    /\ pc = "while"
    /\ student_id \in seen_students
    /\ index' = index + 1
    /\ student_id' = StudentCandidate(args.student_prefix, index + 1)
    /\ UNCHANGED <<pc, inputVars, metadata, records, seen_students, pos, matched, normVars, keyVars, extVars>>

\* the record with the three metadata fields overridden together, and only
\* by a match that has a proposal ID
NewRecord_all_or_nothing(pdf, sid, n, meta) ==
    LET stem == Stem(pdf.name)
        proposal_id == extract_proposal_id(stem, ProposalCandidate(args.proposal_prefix, n))
        override == meta # <<>> /\ meta[1].proposal_id # <<>>
    IN  [ student_id |-> sid,
          proposal_id |-> IF override THEN meta[1].proposal_id ELSE proposal_id,
          filename |-> pdf.name,
          author_name |-> IF override THEN meta[1].author_name ELSE <<>>,
          proposal_title |-> IF override THEN meta[1].proposal_title ELSE stem ]

\* the record without the fallback of the title to the file stem
NewRecord_no_stem_title(pdf, sid, n, meta) ==
    LET stem == Stem(pdf.name)
        proposal_id == extract_proposal_id(stem, ProposalCandidate(args.proposal_prefix, n))
    IN  [ student_id |-> sid,
          proposal_id |-> IF meta # <<>> /\ meta[1].proposal_id # <<>>
                          THEN meta[1].proposal_id ELSE proposal_id,
          filename |-> pdf.name,
          author_name |-> IF meta # <<>> THEN meta[1].author_name ELSE <<>>,
          proposal_title |-> IF meta # <<>> THEN meta[1].proposal_title ELSE <<>> ]

\* the record of the current file, from the proposal ID in its name, the
\* running index and the metadata match
NewRecord(pdf, sid, n, meta) ==
    LET stem == Stem(pdf.name)
        proposal_id == extract_proposal_id(stem, ProposalCandidate(args.proposal_prefix, n))
    IN  [ student_id |-> sid,
          proposal_id |-> IF meta # <<>> /\ meta[1].proposal_id # <<>>
                          THEN meta[1].proposal_id ELSE proposal_id,
          filename |-> pdf.name,
          author_name |-> IF meta # <<>> THEN meta[1].author_name ELSE <<>>,
          proposal_title |-> IF meta # <<>> /\ meta[1].proposal_title # <<>>
                             THEN meta[1].proposal_title ELSE stem ]

\* the record appended without the collision loop
AppendRecord_unchecked ==
    /\ pc = "while"
    /\ records' = Append(records,
                         NewRecord(pdf_files[pos], student_id, index,
                                   match_metadata(pdf_files[pos], metadata)))
    /\ matched' = Append(matched, MatchResult(pdf_files[pos], metadata))
    /\ seen_students' = seen_students \cup {student_id}
    /\ index' = index + 1
    /\ pc' = "for"
    /\ UNCHANGED <<inputVars, metadata, pos, student_id, normVars, keyVars, extVars>>

\* a file whose proposal ID an earlier record already carries is dropped
AppendRecord_dedup ==
    /\ pc = "while"
    /\ student_id \notin seen_students
    /\ LET new == NewRecord(pdf_files[pos], student_id, index,
                            match_metadata(pdf_files[pos], metadata))
           dup == \E k \in 1..Len(records) : records[k].proposal_id = new.proposal_id
       IN  /\ records' = IF dup THEN records ELSE Append(records, new)
           /\ matched' = IF dup THEN matched
                         ELSE Append(matched, MatchResult(pdf_files[pos], metadata))
    /\ seen_students' = seen_students \cup {student_id}
    /\ index' = index + 1
    /\ pc' = "for"
    /\ UNCHANGED <<inputVars, metadata, pos, student_id, normVars, keyVars, extVars>>

\* the loop is left: the record is appended, the ID is recorded as seen
AppendRecord ==
    /\ pc = "while"
    /\ student_id \notin seen_students
    /\ records' = Append(records,
                         NewRecord(pdf_files[pos], student_id, index,
                                   match_metadata(pdf_files[pos], metadata)))
    /\ matched' = Append(matched, MatchResult(pdf_files[pos], metadata))
    /\ seen_students' = seen_students \cup {student_id}
    /\ index' = index + 1
    /\ pc' = "for"
    /\ UNCHANGED <<inputVars, metadata, pos, student_id, normVars, keyVars, extVars>>

\* return records
Return ==
    /\ pc = "for"
    /\ pos = Len(pdf_files)
    /\ pc' = "done"
    /\ UNCHANGED <<inputVars, buildVars, normVars, keyVars, extVars>>

\* ---- normalize_value on its own: applied to a string, then to its result

NormAlphabet == {"A", "z", "7", "_", " ", "KELVIN", "e_acute"}

\* the longest string normalize_value is applied to in NormSpec
MaxStrLen == 3

NormInputs == UNION {[1..n -> NormAlphabet] : n \in 0..MaxStrLen}

NormInit ==
    /\ KeyIdle
    /\ ExtIdle
    /\ pc = "normalize"
    /\ value \in NormInputs
    /\ normalized = <<>>
    /\ renormalized = <<>>
    /\ csv = [exists |-> FALSE, rows |-> <<>>]
    /\ pdf_files = <<>>
    /\ args = [student_prefix |-> <<"S">>, proposal_prefix |-> <<"P">>, start_index |-> 1]
    /\ metadata = <<>>
    /\ records = <<>>
    /\ seen_students = {}
    /\ index = 0
    /\ pos = 0
    /\ student_id = <<>>
    /\ matched = <<>>

Normalize ==
    /\ pc = "normalize"
    /\ normalized' = normalize_value(value)
    /\ pc' = "again"
    /\ UNCHANGED <<inputVars, buildVars, keyVars, extVars, value, renormalized>>

NormalizeAgain ==
    /\ pc = "again"
    /\ renormalized' = normalize_value(normalized)
    /\ pc' = "normalized"
    /\ UNCHANGED <<inputVars, buildVars, keyVars, extVars, value, normalized>>

NormNext == Normalize \/ NormalizeAgain

NormSpec == NormInit /\ [][NormNext]_vars

Next == LoadMetadata \/ BuildRecords \/ NextPdf \/ Collision \/ AppendRecord \/ Return

Spec == Init /\ [][Next]_vars

\* The runs without a metadata file; the collision loop reads no metadata.
LoopInit == Init /\ ~csv.exists

\* The script is one sequential process: a step that can be taken is taken.
LoopSpec == LoopInit /\ [][Next]_vars /\ WF_vars(Next)

\* ---- load_metadata and match_metadata on their own: one document against
\* ---- the lookup of a metadata file

TextNeuralCoding ==
    <<"N", "e", "u", "r", "a", "l", " ", "C", "o", "d", "i", "n", "g", " ",
      "T", "o", "d", "a", "y", "\n">>

TextGraphMethods ==
    <<"G", "r", "a", "p", "h", " ", "M", "e", "t", "h", "o", "d", "s", " ",
      "N", "e", "u", "r", "a", "l", " ", "T", "o", "d", "a", "y", "\n">>

TextQuantumCoding ==
    <<"Q", "u", "a", "n", "t", "u", "m", " ", "C", "o", "d", "i", "n", "g", " ",
      "T", "o", "d", "a", "y", "\n">>

TextStopWords ==
    <<"f", "o", "r", " ", "t", "h", "e", " ", "a", "n", "d", " ", "o", "f", " ",
      "t", "o", " ", "b", "y", "\n">>

StemTwoIds == <<"P", "9", "_", "P", "0", "1", "0">>

StemLowerIdFirst == <<"p", "0", "1", "0", "_", "P", "9">>

StemNotes == <<"n", "o", "t", "e", "s">>

StemGraphTitle ==
    <<"g", "r", "a", "p", "h", "_", "n", "e", "u", "r", "a", "l", "_",
      "n", "e", "t", "w", "o", "r", "k", "s">>

\* the documents match_metadata is called on
MatchDocPool ==
    { Pdf(StemTwoIds, <<>>), Pdf(StemTwoIds, TextGraphMethods),
      Pdf(StemLowerIdFirst, <<>>),
      Pdf(StemNotes, <<>>), Pdf(StemNotes, TextWithoutTitle),
      Pdf(StemNotes, TextNeuralCoding), Pdf(StemNotes, TextGraphMethods),
      Pdf(StemNotes, TextQuantumCoding), Pdf(StemNotes, TextStopWords),
      Pdf(StemGraphTitle, <<>>), Pdf(StemGraphTitle, TextNeuralCoding) }

RowAnn ==
    Row(<<"P", "0", "1", "0">>, <<"A", "n", "n">>,
        <<"G", "r", "a", "p", "h", " ", "N", "e", "u", "r", "a", "l", " ",
          "N", "e", "t", "w", "o", "r", "k", "s">>)

RowBob ==
    Row(<<>>, <<"B", "o", "b">>,
        <<"T", "h", "e", " ", "N", "e", "u", "r", "a", "l", " ",
          "M", "e", "t", "h", "o", "d", "s">>)

RowCy ==
    Row(<<"p", "0", "1", "0">>, <<"C", "y">>,
        <<"g", "r", "a", "p", "h", "-", "n", "e", "u", "r", "a", "l", " ",
          "n", "e", "t", "w", "o", "r", "k", "s", "!">>)

RowDee == Row(<<"P", "7">>, <<"D", "e", "e">>, <<"O", "f", " ", "t", "h", "e">>)

RowEve == Row(<<"P", "7">>, <<"E", "v", "e">>, <<>>)

\* a row without proposal ID and title, which load_metadata skips
RowBlank == Row(<<" ">>, <<"Z", "e", "d">>, <<" ", " ">>)

\* rows of the metadata file; RowCy has the title key and the ID key of
\* RowAnn, RowEve the ID key of RowDee
MatchRowPool == {RowAnn, RowBob, RowCy, RowDee, RowEve, RowBlank}

\* the largest number of rows in the metadata file of MatchSpec
MaxMatchRows == 3

MatchRowLists ==
    UNION {{r \in [1..n -> MatchRowPool] : \A a, b \in 1..n : a # b => r[a] # r[b]} :
              n \in 0..MaxMatchRows}

MatchInit ==
    /\ KeyIdle
    /\ ExtIdle
    /\ pc = "main"
    /\ csv \in {[exists |-> FALSE, rows |-> <<>>]}
                   \cup {[exists |-> TRUE, rows |-> r] : r \in MatchRowLists}
    /\ pdf_files \in {<<d>> : d \in MatchDocPool}
    /\ args = [student_prefix |-> <<"S">>, proposal_prefix |-> <<"P">>, start_index |-> 1]
    /\ metadata = <<>>
    /\ records = <<>>
    /\ seen_students = {}
    /\ index = 0
    /\ pos = 0
    /\ student_id = <<>>
    /\ matched = <<>>
    /\ value = <<>>
    /\ normalized = <<>>
    /\ renormalized = <<>>

\* meta = match_metadata(pdf, metadata), for the one document
MatchDocument ==
    /\ pc = "build"
    /\ matched' = <<MatchResult(pdf_files[1], metadata)>>
    /\ pc' = "matched"
    /\ UNCHANGED <<inputVars, metadata, records, seen_students, index, pos, student_id,
                   normVars, keyVars, extVars>>

MatchNext == LoadMetadata \/ MatchDocument

MatchSpec == MatchInit /\ [][MatchNext]_vars

\* ---- the key generator: generate_and_randomize_key

KeyInit ==
    /\ ExtIdle
    /\ pc = "key_read"
    /\ roster \in RosterFiles
    /\ directory \in Directories
    /\ old_key \in KeyFiles
    /\ key_file = old_key
    /\ student_ids = <<>>
    /\ missing_files = <<>>
    /\ master_key_data = <<>>
    /\ printed = [names |-> <<>>, more |-> 0]
    /\ exit_status = -1
    /\ error = ""
    /\ raised = ""
    /\ label_list = PUBLIC_REVIEW_NAMES
    /\ names_copy = <<>>
    /\ csv = [exists |-> FALSE, rows |-> <<>>]
    /\ pdf_files = <<>>
    /\ args = [student_prefix |-> <<"S">>, proposal_prefix |-> <<"P">>, start_index |-> 1]
    /\ metadata = <<>>
    /\ records = <<>>
    /\ seen_students = {}
    /\ index = 0
    /\ pos = 0
    /\ student_id = <<>>
    /\ matched = <<>>
    /\ value = <<>>
    /\ normalized = <<>>
    /\ renormalized = <<>>

\* the messages of the error branches of generate_and_randomize_key
RosterNotFound == "ERROR: students.csv not found. Please ensure it exists."

RosterMalformed == "ERROR: students.csv appears to be empty or malformed."

NoStudentIds == "ERROR: No student IDs found in students.csv."

MissingReviewFiles == "ERROR: Missing review file(s)"

\* 1. Read Student IDs. The process ends with status 1 when the file does
\* not exist (FileNotFoundError, caught and reported), when it has no line
\* (next(reader) raises StopIteration, which neither handler catches: the
\* interpreter prints the traceback) and when no ID is found. The handler
\* of IndexError is never entered: row[0] is read of non-empty rows only.
ReadStudents ==
    /\ pc = "key_read"
    /\ IF ~roster.exists
       THEN /\ error' = RosterNotFound
            /\ exit_status' = 1
            /\ pc' = "key_exit"
            /\ UNCHANGED <<student_ids, raised>>
       ELSE IF roster.lines = <<>>
       THEN /\ raised' = "StopIteration"
            /\ exit_status' = 1
            /\ pc' = "key_exit"
            /\ UNCHANGED <<student_ids, error>>
       ELSE IF StudentIdsOf(Tail(roster.lines)) = <<>>
       THEN /\ error' = NoStudentIds
            /\ exit_status' = 1
            /\ pc' = "key_exit"
            /\ UNCHANGED <<student_ids, raised>>
       ELSE /\ student_ids' = StudentIdsOf(Tail(roster.lines))
            /\ pc' = "key_validate"
            /\ UNCHANGED <<exit_status, error, raised>>
    /\ UNCHANGED <<inputVars, buildVars, normVars, extVars, keyInputs, key_file, missing_files,
                   master_key_data, printed, label_list, names_copy>>

\* what the error branch prints of the missing files: the first 20 names,
\* and the number of the others
PrintMissing(missing) ==
    [names |-> SubSeq(missing, 1, Min(MaxListed, Len(missing))),
     more |-> IF Len(missing) > MaxListed THEN Len(missing) - MaxListed ELSE 0]

\* the validation with the error branch printing and going on
ValidateReviewFiles_advisory ==
    /\ pc = "key_validate"
    /\ missing_files' = validate_review_files(student_ids, directory)
    /\ printed' = IF missing_files' # <<>> THEN PrintMissing(missing_files') ELSE printed
    /\ pc' = "key_assign"
    /\ UNCHANGED <<inputVars, buildVars, normVars, extVars, keyInputs, key_file, student_ids,
                   master_key_data, exit_status, error, raised, label_list, names_copy>>

\* 2. Validate that all review files exist
ValidateReviewFiles ==
    /\ pc = "key_validate"
    /\ missing_files' = validate_review_files(student_ids, directory)
    /\ IF missing_files' # <<>>
       THEN /\ printed' = PrintMissing(missing_files')
            /\ error' = MissingReviewFiles
            /\ exit_status' = 1
            /\ pc' = "key_exit"
       ELSE /\ pc' = "key_assign"
            /\ UNCHANGED <<printed, exit_status, error>>
    /\ UNCHANGED <<inputVars, buildVars, normVars, extVars, keyInputs, key_file, student_ids,
                   master_key_data, raised, label_list, names_copy>>

\* one turn of the loop, random.shuffle being applied to the global list
\* itself and not to a copy of it
AssignStudent_in_place ==
    /\ pc = "key_assign"
    /\ Len(master_key_data) < Len(student_ids) * Len(SOURCE_TYPES)
    /\ names_copy' = label_list
    /\ \E randomized_public_names \in ShufflesOf(label_list) :
           /\ label_list' = randomized_public_names
           /\ master_key_data' =
                  master_key_data
                      \o KeyEntries(student_ids[(Len(master_key_data) \div Len(SOURCE_TYPES)) + 1],
                                    randomized_public_names)
    /\ UNCHANGED <<pc, inputVars, buildVars, normVars, extVars, keyInputs, key_file, student_ids,
                   missing_files, printed, exit_status, error, raised>>

\* 3. and 4. One turn of the loop over student_ids: a copy of the public
\* names is taken and shuffled, and the four entries of the student are
\* appended
AssignStudent ==
    /\ pc = "key_assign"
    /\ Len(master_key_data) < Len(student_ids) * Len(SOURCE_TYPES)
    /\ names_copy' = label_list
    /\ \E randomized_public_names \in ShufflesOf(names_copy') :
           master_key_data' =
               master_key_data
                   \o KeyEntries(student_ids[(Len(master_key_data) \div Len(SOURCE_TYPES)) + 1],
                                 randomized_public_names)
    /\ UNCHANGED <<pc, inputVars, buildVars, normVars, extVars, keyInputs, key_file, student_ids,
                   missing_files, printed, exit_status, error, raised, label_list>>

\* 5. Write the Master Key CSV file
WriteKey ==
    /\ pc = "key_assign"
    /\ Len(master_key_data) = Len(student_ids) * Len(SOURCE_TYPES)
    /\ key_file' = [exists |-> TRUE, rows |-> master_key_data]
    /\ exit_status' = 0
    /\ pc' = "key_done"
    /\ UNCHANGED <<inputVars, buildVars, normVars, extVars, keyInputs, student_ids, missing_files,
                   master_key_data, printed, error, raised, label_list, names_copy>>

KeyNext == ReadStudents \/ ValidateReviewFiles \/ AssignStudent \/ WriteKey

KeySpec == KeyInit /\ [][KeyNext]_vars

\* ---- the roster builder's main, and the table read back by the scripts
\* ---- that take proposal_mapping.csv

\* the proposal files of the data directory, in the order of
\* sorted(data_dir.glob("*.pdf")); no text is extracted from them
RosterDocPool ==
    << Pdf(<<" ", "d", "r", "a", "f", "t">>, <<>>),
       Pdf(<<"P", "0", "1", "0", "_", "g", "n", "n">>, <<>>),
       Pdf(<<"S", "0", "1", "_", "c", "o", "p", "y">>, <<>>),
       Pdf(<<"S", "0", "1", "_", "t", "h", "e", "s", "i", "s">>, <<>>),
       Pdf(<<"S", "m", "i", "t", "h", "_", "p", "l", "a", "n">>, <<>>),
       Pdf(<<"g", "r", "a", "p", "h", "_", "n", "e", "u", "r", "a", "l">>, <<>>),
       Pdf(<<"s", "0", "2", "_", "P", "0", "1", "0">>, <<>>) >>

\* the largest number of proposal files in the data directory of RosterSpec
MaxRosterDocs == 3

\* the largest number of rows in the metadata file of RosterSpec
MaxRosterRows == 2

RosterDocLists ==
    {Pick(RosterDocPool, chosen, 1) :
        chosen \in {c \in SUBSET (1..Len(RosterDocPool)) :
                        Cardinality(c) >= 1 /\ Cardinality(c) <= MaxRosterDocs}}

\* the data directory: absent, without a PDF file, or with PDF files
DataDirs ==
    { [exists |-> FALSE, files |-> <<>>], [exists |-> TRUE, files |-> <<>>] }
        \cup {[exists |-> TRUE, files |-> f] : f \in RosterDocLists}

\* metadata rows whose proposal IDs are numbers, and one whose ID is P010
RowSeven == Row(<<"0", "0", "7">>, <<"A", "n", "n">>, <<"G", "r", "a", "p", "h", " ", "N", "e", "u", "r", "a", "l">>)

RowFortyTwo == Row(<<"4", "2">>, <<"C", "y">>, <<"S", "m", "i", "t", "h", " ", "P", "l", "a", "n">>)

RowTen == Row(<<"P", "0", "1", "0">>, <<"B", "o", "b">>, <<"G", "n", "n", " ", "S", "u", "r", "v", "e", "y">>)

RosterRowPool == {RowSeven, RowFortyTwo, RowTen}

RosterRowLists ==
    UNION {{r \in [1..n -> RosterRowPool] : \A a, b \in 1..n : a # b => r[a] # r[b]} :
              n \in 0..MaxRosterRows}

RosterMetadataFiles ==
    {[exists |-> FALSE, rows |-> <<>>]}
        \cup {[exists |-> TRUE, rows |-> r] : r \in RosterRowLists}

\* the defaults of --student-prefix, --proposal-prefix and --start-index,
\* and empty prefixes
RosterArguments ==
    { [student_prefix |-> <<"S">>, proposal_prefix |-> <<"P">>, start_index |-> 1],
      [student_prefix |-> <<>>, proposal_prefix |-> <<>>, start_index |-> 1] }

\* students.csv and proposal_mapping.csv as an earlier run left them
OldStudents == [exists |-> TRUE, rows |-> <<<<<<"S", "9", "9">>, <<"O", "l", "d">>>>>>]

OldMapping == [exists |-> TRUE, rows |-> <<<<<<"P", "9", "9", "9">>, <<"S", "9", "9">>, <<"O", "l", "d">>, <<"O", "l", "d">>, <<"o", "l", "d", ".", "p", "d", "f">>>>>>]

RosterInit ==
    /\ KeyIdle
    /\ ReviewIdle
    /\ DashIdle
    /\ AiIdle
    /\ pc = "start"
    /\ data_dir \in DataDirs
    /\ csv \in RosterMetadataFiles
    /\ args \in RosterArguments
    /\ overwrite \in BOOLEAN
    /\ \E old \in BOOLEAN :
           /\ students_file = IF old THEN OldStudents ELSE NoFile
           /\ mapping_file = IF old THEN OldMapping ELSE NoFile
    /\ table = <<>>
    /\ pdf_files = <<>>
    /\ metadata = <<>>
    /\ records = <<>>
    /\ seen_students = {}
    /\ index = 0
    /\ pos = 0
    /\ student_id = <<>>
    /\ matched = <<>>
    /\ value = <<>>
    /\ normalized = <<>>
    /\ renormalized = <<>>

\* the messages of ensure_data_dir, printed by the handler of
\* FileNotFoundError at the end of the script
DataDirMissing == "ERROR: Data directory 'data' does not exist."

NoPdfFiles == "ERROR: No PDF files found in 'data'."

\* main: pdf_files = ensure_data_dir(args.data_dir)
EnsureDataDir ==
    /\ pc = "start"
    /\ IF ~data_dir.exists
       THEN /\ error' = DataDirMissing
            /\ exit_status' = 1
            /\ pc' = "exit"
            /\ UNCHANGED pdf_files
       ELSE IF data_dir.files = <<>>
       THEN /\ error' = NoPdfFiles
            /\ exit_status' = 1
            /\ pc' = "exit"
            /\ UNCHANGED pdf_files
       ELSE /\ pdf_files' = data_dir.files
            /\ pc' = "main"
            /\ UNCHANGED <<error, exit_status>>
    /\ UNCHANGED <<csv, args, buildVars, normVars, rosterVars, reviewVars, dashVars, aiVars, roster, directory, old_key,
                   key_file, student_ids, missing_files, master_key_data, printed, raised,
                   label_list, names_copy>>

\* main: students.csv is written when --force is given, when the file does
\* not exist, or when the answer to confirm_overwrite is y
WriteStudentsCsv ==
    /\ pc = "done"
    /\ students_file' =
           IF overwrite \/ ~students_file.exists
           THEN [exists |-> TRUE, rows |-> write_students_csv(records)]
           ELSE students_file
    /\ pc' = "students_written"
    /\ UNCHANGED <<inputVars, buildVars, normVars, keyVars, reviewVars, dashVars, aiVars, data_dir, overwrite,
                   mapping_file, table>>

\* main: proposal_mapping.csv is written under the same conditions
WriteMappingCsv ==
    /\ pc = "students_written"
    /\ mapping_file' =
           IF overwrite \/ ~mapping_file.exists
           THEN [exists |-> TRUE, rows |-> write_mapping_csv(records)]
           ELSE mapping_file
    /\ pc' = "tables_written"
    /\ UNCHANGED <<inputVars, buildVars, normVars, keyVars, reviewVars, dashVars, aiVars, data_dir, overwrite,
                   students_file, table>>

\* create_proposal_mapping and load_proposal_mapping: the table is read
\* back with pd.read_csv
ReadMappingTable ==
    /\ pc = "tables_written"
    /\ table' = read_csv(mapping_file.rows)
    /\ pc' = "table_read"
    /\ UNCHANGED <<inputVars, buildVars, normVars, keyVars, reviewVars, dashVars, aiVars, data_dir, overwrite,
                   students_file, mapping_file>>

\* the AI generator's main: proposal_files = find_proposal_files()
FindProposalFiles ==
    /\ pc = "table_read"
    /\ proposal_files' = find_proposal_files(data_dir, mapping_file)
    /\ pc' = "proposals_found"
    /\ UNCHANGED <<inputVars, buildVars, normVars, keyVars, rosterVars, reviewVars, dashVars,
                   file_pos, processed, brief_review_num, review_num, attempts, result>>

RosterNext ==
    \/ EnsureDataDir
    \/ LoadMetadata
    \/ BuildRecords
    \/ NextPdf
    \/ Collision
    \/ AppendRecord
    \/ Return
    \/ WriteStudentsCsv
    \/ WriteMappingCsv
    \/ ReadMappingTable
    \/ FindProposalFiles

RosterSpec == RosterInit /\ [][RosterNext]_vars

\* ---- process_reviews: the human review slots

\* a line of the review CSV: the Proposal ID and the Proposal Title cells,
\* and the review content extract_review_content takes from the line
ReviewLine(proposal_id, title, n) ==
    [proposal_id |-> proposal_id, title |-> title, content |-> <<"r">> \o DigitsOf(n)]

\* the Proposal ID and Proposal Title cells of the lines
ReviewCellPool ==
    { <<<<"P", "0", "0", "1">>, <<>>>>, <<<<"P", "0", "0", "2">>, <<>>>>, <<<<"P", "0", "0", "9">>, <<"T", "i", "t", "l", "e", " ", "O", "n", "e">>>>, <<<<"P", "0", "0", "9">>, <<>>>>,
      <<<<>>, <<"T", "i", "t", "l", "e", " ", "O", "n", "e">>>>, <<<<"0", "0", "7">>, <<>>>> }

\* the largest number of lines of the review CSV
MaxReviewLines == 3

ReviewLineLists ==
    UNION {{[k \in 1..n |-> ReviewLine(cells[k][1], cells[k][2], k)] :
               cells \in [1..n -> ReviewCellPool]} : n \in 0..MaxReviewLines}

\* the review CSV: absent, unreadable, without a Proposal ID column, or
\* with its lines
ReviewCsvFiles ==
    { [exists |-> FALSE, readable |-> FALSE, has_id_column |-> FALSE, lines |-> <<>>],
      [exists |-> TRUE, readable |-> FALSE, has_id_column |-> FALSE, lines |-> <<>>],
      [exists |-> TRUE, readable |-> TRUE, has_id_column |-> FALSE, lines |-> <<>>] }
        \cup {[exists |-> TRUE, readable |-> TRUE, has_id_column |-> TRUE, lines |-> l] :
                 l \in ReviewLineLists}

\* proposal_mapping.csv as the roster builder writes it: two students; two
\* students under one proposal ID; two students with numbers as proposal IDs
MappingForTwo ==
    [exists |-> TRUE,
     rows |-> << <<<<"P", "0", "0", "1">>, <<"S", "0", "1">>, <<"A", "n", "n">>, <<"T", "i", "t", "l", "e", " ", "O", "n", "e">>, <<"a", ".", "p", "d", "f">>>>, <<<<"P", "0", "0", "2">>, <<"S", "0", "2">>, <<"B", "o", "b">>, <<"T", "i", "t", "l", "e", " ", "T", "w", "o">>, <<"b", ".", "p", "d", "f">>>> >>]

MappingSharedId ==
    [exists |-> TRUE,
     rows |-> << <<<<"P", "0", "0", "1">>, <<"S", "0", "1">>, <<"A", "n", "n">>, <<"T", "i", "t", "l", "e", " ", "O", "n", "e">>, <<"a", ".", "p", "d", "f">>>>, <<<<"P", "0", "0", "1">>, <<"S", "0", "2">>, <<"B", "o", "b">>, <<"T", "i", "t", "l", "e", " ", "T", "w", "o">>, <<"b", ".", "p", "d", "f">>>> >>]

MappingNumbers ==
    [exists |-> TRUE,
     rows |-> << <<<<"0", "0", "7">>, <<"S", "0", "1">>, <<"A", "n", "n">>, <<"T", "i", "t", "l", "e", " ", "O", "n", "e">>, <<"a", ".", "p", "d", "f">>>>, <<<<"4", "2">>, <<"S", "0", "2">>, <<"B", "o", "b">>, <<"T", "i", "t", "l", "e", " ", "T", "w", "o">>, <<"b", ".", "p", "d", "f">>>> >>]

MappingFiles == {NoFile, MappingForTwo, MappingSharedId, MappingNumbers}

\* reviews_original before the run: empty, or with files of an earlier run
ReviewDirectories ==
    { {}, {SlotFile(<<"S", "0", "1">>, <<"H", "1">>, PdfSuffix), SlotFile(<<"S", "0", "1">>, <<"H", "2">>, TxtSuffix)} }

ReviewInit ==
    /\ DashIdle
    /\ AiIdle
    /\ pc = "rev_start"
    /\ review_csv \in ReviewCsvFiles
    /\ mapping_file \in MappingFiles
    /\ read_fails \in (IF mapping_file.exists THEN BOOLEAN ELSE {FALSE})
    /\ directory \in ReviewDirectories
    /\ reviews_by_proposal = <<>>
    /\ rev_pos = 0
    /\ saved = <<>>
    /\ success_count = 0
    /\ notice = ""
    /\ table = <<>>
    /\ data_dir = [exists |-> FALSE, files |-> <<>>]
    /\ overwrite = TRUE
    /\ students_file = NoFile
    /\ roster = [exists |-> FALSE, lines |-> <<>>]
    /\ old_key = NoKeyFile
    /\ key_file = NoKeyFile
    /\ student_ids = <<>>
    /\ missing_files = <<>>
    /\ master_key_data = <<>>
    /\ printed = [names |-> <<>>, more |-> 0]
    /\ exit_status = -1
    /\ error = ""
    /\ raised = ""
    /\ label_list = PUBLIC_REVIEW_NAMES
    /\ names_copy = <<>>
    /\ csv = [exists |-> FALSE, rows |-> <<>>]
    /\ pdf_files = <<>>
    /\ args = [student_prefix |-> <<"S">>, proposal_prefix |-> <<"P">>, start_index |-> 1]
    /\ metadata = <<>>
    /\ records = <<>>
    /\ seen_students = {}
    /\ index = 0
    /\ pos = 0
    /\ student_id = <<>>
    /\ matched = <<>>
    /\ value = <<>>
    /\ normalized = <<>>
    /\ renormalized = <<>>

\* the messages of process_reviews and create_proposal_mapping
ReviewCsvNotFound == "ERROR: csv/590-F25_Thesis_Proposal_Review_Revised.csv not found."

ReviewCsvUnreadable == "ERROR reading CSV"

MappingUnreadable == "ERROR reading proposal_mapping.csv"

NoProposalIdColumn == "ERROR: Could not find 'Proposal ID' column in CSV."

PleaseEditTemplate == "Please edit it to match your actual Proposal IDs and Student IDs."

PleaseCreateMapping == "Please create and edit proposal_mapping.csv first."

\* the template create_proposal_mapping writes: the header Proposal_ID,
\* Student_ID, Proposal_Filename and one row
TemplateMapping == [exists |-> TRUE, rows |-> <<<<<<"1", "2", "3">>, <<"S", "0", "1">>, <<"t", "e", "s", "t", ".", "p", "d", "f">>>>>>]

\* what process_reviews leaves alone
reviewFrame ==
    <<inputVars, buildVars, normVars, dashVars, aiVars, data_dir, overwrite, students_file, roster, old_key,
      key_file, student_ids, missing_files, master_key_data, printed, label_list,
      names_copy, review_csv, read_fails>>

\* process_reviews: Load CSV
LoadReviewCsv ==
    /\ pc = "rev_start"
    /\ IF ~review_csv.exists
       THEN /\ error' = ReviewCsvNotFound
            /\ exit_status' = 0
            /\ pc' = "rev_end"
       ELSE IF ~review_csv.readable
       THEN /\ error' = ReviewCsvUnreadable
            /\ exit_status' = 0
            /\ pc' = "rev_end"
       ELSE /\ pc' = "rev_mapping"
            /\ UNCHANGED <<error, exit_status>>
    /\ UNCHANGED <<reviewFrame, directory, mapping_file, table, reviews_by_proposal,
                   rev_pos, saved, success_count, notice, raised>>

\* process_reviews: proposal_mapping, title_mapping = create_proposal_mapping().
\* Without the file the template is written and None is returned, and the
\* assignment to the two names raises TypeError; when reading raises, the
\* pair (None, None) is returned and process_reviews returns.
CreateProposalMapping ==
    /\ pc = "rev_mapping"
    /\ IF ~mapping_file.exists
       THEN /\ mapping_file' = TemplateMapping
            /\ notice' = PleaseEditTemplate
            /\ raised' = "TypeError"
            /\ exit_status' = 1
            /\ pc' = "rev_end"
            /\ UNCHANGED <<table, error>>
       ELSE IF read_fails
       THEN /\ error' = MappingUnreadable
            /\ notice' = PleaseCreateMapping
            /\ exit_status' = 0
            /\ pc' = "rev_end"
            /\ UNCHANGED <<table, mapping_file, raised>>
       ELSE /\ table' = read_csv(mapping_file.rows)
            /\ pc' = "rev_group"
            /\ UNCHANGED <<mapping_file, notice, raised, error, exit_status>>
    /\ UNCHANGED <<reviewFrame, directory, reviews_by_proposal, rev_pos, saved,
                   success_count>>

\* process_reviews: Group reviews by Proposal ID
GroupReviews ==
    /\ pc = "rev_group"
    /\ IF ~review_csv.has_id_column
       THEN /\ error' = NoProposalIdColumn
            /\ exit_status' = 0
            /\ pc' = "rev_end"
            /\ UNCHANGED reviews_by_proposal
       ELSE /\ reviews_by_proposal' = GroupFrom(table, ReviewRows(review_csv.lines), 1, <<>>)
            /\ pc' = "rev_save"
            /\ UNCHANGED <<error, exit_status>>
    /\ UNCHANGED <<reviewFrame, directory, mapping_file, table, rev_pos, saved,
                   success_count, notice, raised>>

\* process_reviews: one turn of the loop over reviews_by_proposal.items():
\* the two reviews of the student are saved, each as a PDF file or, when no
\* converter succeeds, as a text file, and each is counted
SaveStudentReviews ==
    /\ pc = "rev_save"
    /\ rev_pos < Len(reviews_by_proposal)
    /\ LET id == reviews_by_proposal[rev_pos + 1].student_id
           reviews == ReviewsToSave(reviews_by_proposal[rev_pos + 1].reviews)
       IN  \E first_is_pdf, second_is_pdf \in BOOLEAN :
               /\ saved' = saved \o
                      << [student_id |-> id, source_id |-> <<"H", "1">>,
                          text |-> reviews[1], is_pdf |-> first_is_pdf],
                         [student_id |-> id, source_id |-> <<"H", "2">>,
                          text |-> reviews[2], is_pdf |-> second_is_pdf] >>
               /\ directory' = SaveInto(SaveInto(directory, id, <<"H", "1">>, first_is_pdf),
                                        id, <<"H", "2">>, second_is_pdf)
               /\ mapping_file' = update_proposal_mapping_reviewer(mapping_file, id)
    /\ success_count' = success_count + 2
    /\ rev_pos' = rev_pos + 1
    /\ UNCHANGED <<pc, reviewFrame, table, reviews_by_proposal, notice, raised, error,
                   exit_status>>

\* process_reviews: the loop is over and the function returns
FinishReviews ==
    /\ pc = "rev_save"
    /\ rev_pos = Len(reviews_by_proposal)
    /\ exit_status' = 0
    /\ pc' = "rev_end"
    /\ UNCHANGED <<reviewFrame, directory, mapping_file, table, reviews_by_proposal,
                   rev_pos, saved, success_count, notice, raised, error>>

ReviewNext ==
    \/ LoadReviewCsv
    \/ CreateProposalMapping
    \/ GroupReviews
    \/ SaveStudentReviews
    \/ FinishReviews

ReviewSpec == ReviewInit /\ [][ReviewNext]_vars

\* ---- remove_forbidden_dashes on its own: applied to a text, then to its
\* ---- result

\* the pieces a text is made of: characters, the bullet marker and the
\* placeholder
DashPieces ==
    { <<"-">>, <<"EN_DASH">>, <<"EM_DASH">>, <<" ">>, <<"\n">>, <<"a">>,
      BulletMarker, BulletPlaceholder }

\* the largest number of pieces of a text
MaxPieces == 4

DashInputs ==
    UNION {{Join(pieces, 1, n) : pieces \in [1..n -> DashPieces]} : n \in 0..MaxPieces}

DashInit ==
    /\ KeyIdle
    /\ RosterIdle
    /\ ReviewIdle
    /\ AiIdle
    /\ pc = "clean"
    /\ dash_text \in DashInputs
    /\ cleaned_text = <<>>
    /\ recleaned_text = <<>>
    /\ csv = [exists |-> FALSE, rows |-> <<>>]
    /\ pdf_files = <<>>
    /\ args = [student_prefix |-> <<"S">>, proposal_prefix |-> <<"P">>, start_index |-> 1]
    /\ metadata = <<>>
    /\ records = <<>>
    /\ seen_students = {}
    /\ index = 0
    /\ pos = 0
    /\ student_id = <<>>
    /\ matched = <<>>
    /\ value = <<>>
    /\ normalized = <<>>
    /\ renormalized = <<>>

Clean ==
    /\ pc = "clean"
    /\ cleaned_text' = remove_forbidden_dashes(dash_text)
    /\ pc' = "clean_again"
    /\ UNCHANGED <<inputVars, buildVars, normVars, keyVars, rosterVars, reviewVars, aiVars,
                   dash_text, recleaned_text>>

CleanAgain ==
    /\ pc = "clean_again"
    /\ recleaned_text' = remove_forbidden_dashes(cleaned_text)
    /\ pc' = "cleaned"
    /\ UNCHANGED <<inputVars, buildVars, normVars, keyVars, rosterVars, reviewVars, aiVars,
                   dash_text, cleaned_text>>

DashNext == Clean \/ CleanAgain

DashSpec == DashInit /\ [][DashNext]_vars

\* ---- the AI generator's main from the loop over proposal_files on, with
\* ---- generate_reviews_for_student

\* the (student_id, proposal_path) pairs of find_proposal_files, the text of
\* the file empty when extract_text_from_pdf gives nothing
ProposalPool ==
    { [student_id |-> <<"S", "0", "1">>, name |-> <<"S", "0", "1", ".", "p", "d", "f">>, text |-> <<"p">>],
      [student_id |-> <<"S", "0", "1">>, name |-> <<"S", "0", "1", "_", "b", ".", "p", "d", "f">>, text |-> <<>>],
      [student_id |-> <<"S", "0", "2">>, name |-> <<"S", "0", "2", ".", "p", "d", "f">>, text |-> <<"p">>] }

\* the largest number of proposal files of AiSpec
MaxProposals == 2

ProposalLists == UNION {[1..n -> ProposalPool] : n \in 0..MaxProposals}

\* what call_azure_openai returns: None after an exception, or the text of
\* the model
ResponsePool ==
    { <<>>,
      BulletMarker \o <<"a", "EM_DASH", "b", "\n">> \o BulletMarker \o <<"c">> }

AiDirectories ==
    { {}, {SlotFile(<<"S", "0", "1">>, <<"A", "I", "1">>, PdfSuffix)} }

AiInit ==
    /\ DashIdle
    /\ data_dir = [exists |-> FALSE, files |-> <<>>]
    /\ overwrite = TRUE
    /\ students_file = NoFile
    /\ table = <<>>
    /\ pc = "ai_main"
    /\ proposal_files \in ProposalLists
    /\ file_pos = 0
    /\ processed = 0
    /\ brief_review_num = 0
    /\ review_num = 0
    /\ attempts = <<>>
    /\ result = ""
    /\ mapping_file \in {NoFile, MappingForTwo}
    /\ directory \in AiDirectories
    /\ saved = <<>>
    /\ success_count = 0
    /\ review_csv = [exists |-> FALSE, readable |-> FALSE, has_id_column |-> FALSE, lines |-> <<>>]
    /\ read_fails = FALSE
    /\ reviews_by_proposal = <<>>
    /\ rev_pos = 0
    /\ notice = ""
    /\ roster = [exists |-> FALSE, lines |-> <<>>]
    /\ old_key = NoKeyFile
    /\ key_file = NoKeyFile
    /\ student_ids = <<>>
    /\ missing_files = <<>>
    /\ master_key_data = <<>>
    /\ printed = [names |-> <<>>, more |-> 0]
    /\ exit_status = -1
    /\ error = ""
    /\ raised = ""
    /\ label_list = PUBLIC_REVIEW_NAMES
    /\ names_copy = <<>>
    /\ csv = [exists |-> FALSE, rows |-> <<>>]
    /\ pdf_files = <<>>
    /\ args = [student_prefix |-> <<"S">>, proposal_prefix |-> <<"P">>, start_index |-> 1]
    /\ metadata = <<>>
    /\ records = <<>>
    /\ seen_students = {}
    /\ index = 0
    /\ pos = 0
    /\ student_id = <<>>
    /\ matched = <<>>
    /\ value = <<>>
    /\ normalized = <<>>
    /\ renormalized = <<>>

\* what the AI generator leaves alone
aiFrame ==
    <<inputVars, buildVars, normVars, dashVars, data_dir, overwrite, students_file, table,
      roster, old_key, key_file, student_ids, missing_files, master_key_data, printed, exit_status, error, raised,
      label_list, names_copy, review_csv, read_fails, reviews_by_proposal, rev_pos,
      notice, proposal_files>>

\* main: the loop takes the next pair and calls generate_reviews_for_student
NextProposal ==
    /\ pc = "ai_main"
    /\ file_pos < Len(proposal_files)
    /\ file_pos' = file_pos + 1
    /\ pc' = "ai_student"
    /\ UNCHANGED <<aiFrame, directory, mapping_file, saved, success_count, processed,
                   brief_review_num, review_num, attempts, result>>

\* generate_reviews_for_student: the text is extracted, and False is returned
\* when there is none; else the style of the two reviews is drawn
ExtractText ==
    /\ pc = "ai_student"
    /\ IF proposal_files[file_pos].text = <<>>
       THEN /\ result' = "False"
            /\ pc' = "ai_main"
            /\ UNCHANGED <<brief_review_num, review_num, success_count>>
       ELSE /\ brief_review_num' \in {0, 1, 2}
            /\ review_num' = 0
            /\ success_count' = 0
            /\ pc' = "ai_loop"
            /\ UNCHANGED result
    /\ UNCHANGED <<aiFrame, directory, mapping_file, saved, processed, file_pos, attempts>>

\* call_ai_api that sends every review to the first configuration
ModelOf_first(review_number) == "GPT-4o"

\* call_ai_api: review 1 goes to the first model configuration, every other
\* review to the second
ModelOf(review_number) == IF review_number = 1 THEN "GPT-4o" ELSE "Llama-3.3-70B"

\* the prompt template of a review
PromptOf(brief, review_number) ==
    IF brief # 0 /\ review_number = brief THEN "CONCISE" ELSE "DETAILED"

\* the source ID of an AI review
AiSlot(review_number) == <<"A", "I">> \o DigitsOf(review_number)

\* generate_reviews_for_student: one turn of the loop over [1, 2]
GenerateReview ==
    /\ pc = "ai_loop"
    /\ review_num < 2
    /\ review_num' = review_num + 1
    /\ LET id == proposal_files[file_pos].student_id
       IN  \E review_text \in ResponsePool :
               /\ attempts' = Append(attempts,
                      [file |-> file_pos, student_id |-> id, review_number |-> review_num',
                       model |-> ModelOf(review_num'),
                       prompt |-> PromptOf(brief_review_num, review_num'),
                       response |-> review_text])
               /\ IF review_text = <<>>
                  THEN UNCHANGED <<saved, directory, mapping_file, success_count>>
                  ELSE \E is_pdf \in BOOLEAN :
                           /\ saved' = Append(saved,
                                  [file |-> file_pos, student_id |-> id,
                                   source_id |-> AiSlot(review_num'),
                                   text |-> remove_forbidden_dashes(review_text),
                                   is_pdf |-> is_pdf])
                           /\ directory' = SaveInto(directory, id, AiSlot(review_num'), is_pdf)
                           /\ mapping_file' = update_proposal_mapping_reviewer(mapping_file, id)
                           /\ success_count' = success_count + 1
    /\ UNCHANGED <<pc, aiFrame, processed, file_pos, brief_review_num, result>>

\* generate_reviews_for_student returns success_count == 2, and main counts
\* the student when that is True
ReturnReviews ==
    /\ pc = "ai_loop"
    /\ review_num = 2
    /\ result' = IF success_count = 2 THEN "True" ELSE "False"
    /\ processed' = IF success_count = 2 THEN processed + 1 ELSE processed
    /\ pc' = "ai_main"
    /\ UNCHANGED <<aiFrame, directory, mapping_file, saved, success_count, file_pos,
                   brief_review_num, review_num, attempts>>

\* main: the loop is over
FinishAi ==
    /\ pc = "ai_main"
    /\ file_pos = Len(proposal_files)
    /\ pc' = "ai_end"
    /\ UNCHANGED <<aiFrame, directory, mapping_file, saved, success_count, processed,
                   file_pos, brief_review_num, review_num, attempts, result>>

AiNext == NextProposal \/ ExtractText \/ GenerateReview \/ ReturnReviews \/ FinishAi

AiSpec == AiInit /\ [][AiNext]_vars

\* ---- the three scripts run one after the other on one working directory:
\* ---- process_reviews, the AI generator, the key generator

\* the review CSV: two lines for the proposal of S01 and one for that of S02
PipelineReviewCsv ==
    [exists |-> TRUE, readable |-> TRUE, has_id_column |-> TRUE,
     lines |-> << ReviewLine(<<"P", "0", "0", "1">>, <<>>, 1),
                  ReviewLine(<<"P", "0", "0", "1">>, <<>>, 2),
                  ReviewLine(<<"P", "0", "0", "2">>, <<>>, 3) >>]

\* the largest number of students of the roster of PipelineSpec
MaxPipelineStudents == 2

\* students.csv with the first n students
PipelineRoster(n) == [exists |-> TRUE, lines |-> HeaderRow \o [k \in 1..n |-> <<StudentName(k)>>]]

\* the proposal files of the first n students, each with text
PipelineProposals(n) ==
    [k \in 1..n |-> [student_id |-> StudentName(k), name |-> StudentName(k) \o PdfSuffix, text |-> <<"p">>]]

PipelineInit ==
    /\ DashIdle
    /\ pc = "rev_start"
    /\ review_csv = PipelineReviewCsv
    /\ mapping_file = MappingForTwo
    /\ read_fails = FALSE
    /\ directory \in ReviewDirectories
    /\ \E n \in 1..MaxPipelineStudents :
           /\ roster = PipelineRoster(n)
           /\ proposal_files = PipelineProposals(n)
    /\ file_pos = 0
    /\ processed = 0
    /\ brief_review_num = 0
    /\ review_num = 0
    /\ attempts = <<>>
    /\ result = ""
    /\ reviews_by_proposal = <<>>
    /\ rev_pos = 0
    /\ saved = <<>>
    /\ success_count = 0
    /\ notice = ""
    /\ table = <<>>
    /\ data_dir = [exists |-> FALSE, files |-> <<>>]
    /\ overwrite = TRUE
    /\ students_file = NoFile
    /\ old_key = NoKeyFile
    /\ key_file = NoKeyFile
    /\ student_ids = <<>>
    /\ missing_files = <<>>
    /\ master_key_data = <<>>
    /\ printed = [names |-> <<>>, more |-> 0]
    /\ exit_status = -1
    /\ error = ""
    /\ raised = ""
    /\ label_list = PUBLIC_REVIEW_NAMES
    /\ names_copy = <<>>
    /\ csv = [exists |-> FALSE, rows |-> <<>>]
    /\ pdf_files = <<>>
    /\ args = [student_prefix |-> <<"S">>, proposal_prefix |-> <<"P">>, start_index |-> 1]
    /\ metadata = <<>>
    /\ records = <<>>
    /\ seen_students = {}
    /\ index = 0
    /\ pos = 0
    /\ student_id = <<>>
    /\ matched = <<>>
    /\ value = <<>>
    /\ normalized = <<>>
    /\ renormalized = <<>>

\* process_reviews has ended, and the AI generator is started as its last
\* lines ask: main with a success_count of its own
RunAiGenerator ==
    /\ pc = "rev_end"
    /\ pc' = "ai_main"
    /\ success_count' = 0
    /\ exit_status' = -1
    /\ UNCHANGED <<inputVars, buildVars, normVars, dashVars, rosterVars, aiVars, keyInputs,
                   key_file, student_ids, missing_files, master_key_data, printed, error,
                   raised, label_list, names_copy, review_csv, read_fails,
                   reviews_by_proposal, rev_pos, saved, notice>>

\* the AI generator has ended, and the key generator is started as its last
\* lines ask
RunKeyGenerator ==
    /\ pc = "ai_end"
    /\ pc' = "key_read"
    /\ exit_status' = -1
    /\ error' = ""
    /\ raised' = ""
    /\ UNCHANGED <<inputVars, buildVars, normVars, extVars, keyInputs, key_file, student_ids,
                   missing_files, master_key_data, printed, label_list, names_copy>>

PipelineNext == ReviewNext \/ RunAiGenerator \/ AiNext \/ RunKeyGenerator \/ KeyNext

PipelineSpec == PipelineInit /\ [][PipelineNext]_vars

\* ---------------------------------------------------------------- properties

\* the student ID a file name carries at the start of its stem: the letter
\* S in either case followed by digits, the S in upper case; <<>> when none
StartId(name) ==
    LET stem == Stem(name)
    IN  IF Len(stem) >= 2 /\ stem[1] \in {"S", "s"} /\ IsDigit(stem[2])
        THEN <<"S">> \o SubSeq(stem, 2, 1 + RunLen(stem, 2, DigitSet))
        ELSE <<>>

\* the leftmost upper-case S followed by digits anywhere in a file name
AnywhereId(name) ==
    LET hits == {k \in 1..Len(name) : name[k] = "S" /\ RunLen(name, k + 1, DigitSet) > 0}
    IN  IF hits = {} THEN <<>>
        ELSE LET k == CHOOSE h \in hits : \A g \in hits : h <= g
             IN  SubSeq(name, k, k + RunLen(name, k + 1, DigitSet))

\* the student IDs of the records before record k
EarlierIds(k) == {records[j].student_id : j \in 1..(k - 1)}

\* sid is the student prefix with an index the run has used, zero-padded
\* to two digits
IsGeneratedId(sid) ==
    \E n \in args.start_index..(index - 1) :
        sid = args.student_prefix \o ZeroPad(DigitsOf(n), 2)

\* C1: the student IDs of the records are pairwise distinct, and when
\* build_records has returned there are as many distinct student IDs as
\* input documents.
StudentIdsDistinct ==
    /\ \A a, b \in 1..Len(records) :
           a # b => records[a].student_id # records[b].student_id
    /\ pc = "done" =>
           Cardinality({records[k].student_id : k \in 1..Len(records)}) = Len(pdf_files)

\* C1 happens: a finished run in which two files carry the same ID and an
\* earlier file without an ID was given the ID a later file carries
SharedIdsResolved ==
    /\ pc = "done"
    /\ \E a, b \in 1..Len(pdf_files) :
           a < b /\ StartId(pdf_files[a].name) # <<>>
                 /\ StartId(pdf_files[a].name) = StartId(pdf_files[b].name)
    /\ \E a, b \in 1..Len(pdf_files) :
           a < b /\ StartId(pdf_files[a].name) = <<>>
                 /\ records[a].student_id = StartId(pdf_files[b].name)

\* C2: there is one record per document taken so far, the k-th record
\* carries the name of the k-th input document, and when build_records
\* has returned there is a record for every document.
RecordsFollowInput ==
    /\ Len(records) = (IF pc = "while" THEN pos - 1 ELSE pos)
    /\ \A k \in 1..Len(records) : records[k].filename = pdf_files[k].name
    /\ pc = "done" => Len(records) = Len(pdf_files)

\* C2 happens: a finished run of three files, two of which carry the same
\* student ID and two of which matched the same metadata record
ThreeRecordsWithSharedIdentity ==
    /\ pc = "done"
    /\ Len(records) = 3
    /\ \E a, b \in 1..3 : a # b /\ StartId(pdf_files[a].name) # <<>>
                                /\ StartId(pdf_files[a].name) = StartId(pdf_files[b].name)
    /\ \E a, b \in 1..3 : a # b /\ matched[a].record # <<>>
                                /\ matched[a].record = matched[b].record

\* C3 as stated: of the documents that carry the same student ID the first
\* keeps it, and each later one gets a generated ID that differs from all
\* the IDs assigned before it.
FirstKeepsEmbeddedId ==
    \A k \in 1..Len(records) :
        LET e == StartId(pdf_files[k].name)
            first == \A j \in 1..(k - 1) : StartId(pdf_files[j].name) # e
        IN  e # <<>> =>
                IF first THEN records[k].student_id = e
                ELSE /\ IsGeneratedId(records[k].student_id)
                     /\ records[k].student_id \notin EarlierIds(k)

\* C3, amended: a document that carries a student ID keeps it unless an
\* earlier record already has that ID; otherwise, and so for every later
\* document that carries the same ID, it gets a generated ID (prefix and
\* zero-padded index) that differs from all the IDs assigned before it.
CollisionResolved ==
    \A k \in 1..Len(records) :
        LET e == StartId(pdf_files[k].name)
        IN  e # <<>> =>
                /\ (\E j \in 1..(k - 1) : StartId(pdf_files[j].name) = e)
                       => e \in EarlierIds(k)
                /\ IF e \notin EarlierIds(k) THEN records[k].student_id = e
                   ELSE /\ IsGeneratedId(records[k].student_id)
                        /\ records[k].student_id \notin EarlierIds(k)

\* C3 happens: a finished run in which the first of two files with the
\* same ID kept it and the second got another one
SecondCopyRenumbered ==
    /\ pc = "done"
    /\ \E j, k \in 1..Len(records) :
           /\ j < k
           /\ StartId(pdf_files[j].name) # <<>>
           /\ StartId(pdf_files[j].name) = StartId(pdf_files[k].name)
           /\ records[j].student_id = StartId(pdf_files[j].name)
           /\ records[k].student_id # StartId(pdf_files[k].name)

\* C4: build_records returns, and the running index never decreases.
LoopTerminates == <>(pc = "done") /\ [][index' >= index]_vars

\* C4 happens: a finished run of two files in which the collision loop
\* took two turns for the second file
LoopTookTwoTurns ==
    /\ pc = "done"
    /\ Len(pdf_files) = 2
    /\ index = args.start_index + 4

\* C5 as stated: an upper-case S followed by digits anywhere in the file
\* name is the record's student ID when no earlier record has it, and a
\* file name without one gets a generated ID.
EmbeddedAnywherePreferred ==
    \A k \in 1..Len(records) :
        LET e == AnywhereId(pdf_files[k].name)
        IN  IF e # <<>> THEN e \notin EarlierIds(k) => records[k].student_id = e
            ELSE IsGeneratedId(records[k].student_id)

\* C5, amended: the student ID at the start of the file's stem (S or s
\* followed by digits, the S in upper case) is the record's student ID
\* when no earlier record has it; a file whose stem does not start that
\* way, also one that holds the pattern further in, gets a generated ID.
EmbeddedAtStartPreferred ==
    \A k \in 1..Len(records) :
        LET e == StartId(pdf_files[k].name)
        IN  IF e # <<>> THEN e \notin EarlierIds(k) => records[k].student_id = e
            ELSE IsGeneratedId(records[k].student_id)

\* C5 happens: a finished run with a file that holds an ID further in and
\* got a generated one, and a file that starts with a lower-case s and
\* got the ID it carries
InnerIdIgnoredStartIdKept ==
    /\ pc = "done"
    /\ \E k \in 1..Len(records) :
           /\ StartId(pdf_files[k].name) = <<>>
           /\ AnywhereId(pdf_files[k].name) # <<>>
           /\ records[k].student_id # AnywhereId(pdf_files[k].name)
    /\ \E k \in 1..Len(records) :
           /\ pdf_files[k].name[1] = "s"
           /\ records[k].student_id = StartId(pdf_files[k].name)

\* the proposal ID the file name gives: P followed by digits at the start
\* of the upper-cased stem, else the proposal prefix with an index the run
\* has used, zero-padded to three digits
IsFilenameProposalId(pid, name) ==
    LET stem == Stem(name)
    IN  IF Len(stem) >= 2 /\ stem[1] \in {"P", "p"} /\ IsDigit(stem[2])
        THEN pid = <<"P">> \o SubSeq(stem, 2, 1 + RunLen(stem, 2, DigitSet))
        ELSE \E n \in args.start_index..(index - 1) :
                 pid = args.proposal_prefix \o ZeroPad(DigitsOf(n), 3)

\* C6 as stated: the three fields are the matched record's exactly when
\* there is a match with a proposal ID; otherwise all three are derived
\* from the file name.
OverrideOnlyWithProposalId ==
    \A k \in 1..Len(records) :
        LET m == matched[k].record
        IN  IF m # <<>> /\ m[1].proposal_id # <<>>
            THEN /\ records[k].proposal_id = m[1].proposal_id
                 /\ records[k].author_name = m[1].author_name
                 /\ records[k].proposal_title = m[1].proposal_title
            ELSE /\ IsFilenameProposalId(records[k].proposal_id, pdf_files[k].name)
                 /\ records[k].author_name = <<>>
                 /\ records[k].proposal_title = Stem(pdf_files[k].name)

\* C6, amended: each field is overridden on its own. The proposal ID is
\* the matched record's exactly when there is a match with a proposal ID,
\* and else the one the file name gives; the author name is the matched
\* record's whenever there is a match, and else empty; the title is the
\* matched record's whenever there is a match with a title, and else the
\* file stem.
OverridePerField ==
    \A k \in 1..Len(records) :
        LET m == matched[k].record
        IN  /\ IF m # <<>> /\ m[1].proposal_id # <<>>
               THEN records[k].proposal_id = m[1].proposal_id
               ELSE IsFilenameProposalId(records[k].proposal_id, pdf_files[k].name)
            /\ records[k].author_name = (IF m # <<>> THEN m[1].author_name ELSE <<>>)
            /\ records[k].proposal_title =
                   (IF m # <<>> /\ m[1].proposal_title # <<>>
                    THEN m[1].proposal_title ELSE Stem(pdf_files[k].name))

\* C6 happens: a finished run with a record whose match had no proposal
\* ID and gave its author, and a record whose match had no title and gave
\* its proposal ID
PartialOverrides ==
    /\ pc = "done"
    /\ \E k \in 1..Len(records) :
           /\ matched[k].record # <<>>
           /\ matched[k].record[1].proposal_id = <<>>
           /\ records[k].author_name # <<>>
    /\ \E k \in 1..Len(records) :
           /\ matched[k].record # <<>>
           /\ matched[k].record[1].proposal_title = <<>>
           /\ records[k].proposal_id = matched[k].record[1].proposal_id
           /\ records[k].proposal_title = Stem(pdf_files[k].name)

S01_thesis_pdf == <<"S", "0", "1", "_", "t", "h", "e", "s", "i", "s", ".", "p", "d", "f">>

S02_other_pdf == <<"S", "0", "2", "_", "o", "t", "h", "e", "r", ".", "p", "d", "f">>

\* C7: a document without a match still gets its record, with an empty
\* author name, the file stem as title and the student ID the file name
\* gives (the ID at the start of its stem, or a generated one); without a
\* metadata file nothing matches; and the run goes on to the last document.
\* S01_thesis.pdf and S02_other.pdf without metadata give S01 and S02.
NoMatchFallsBack ==
    /\ \A k \in 1..Len(records) :
           matched[k].record = <<>> =>
               /\ records[k].author_name = <<>>
               /\ records[k].proposal_title = Stem(pdf_files[k].name)
               /\ \/ records[k].student_id = StartId(pdf_files[k].name)
                  \/ IsGeneratedId(records[k].student_id)
    /\ (pc \notin {"start", "main"} /\ ~csv.exists) =>
           \A k \in 1..Len(matched) : matched[k].record = <<>>
    /\ pc = "done" => Len(records) = Len(pdf_files)
    /\ (pc = "done" /\ ~csv.exists
            /\ [k \in 1..Len(pdf_files) |-> pdf_files[k].name]
                   = <<S01_thesis_pdf, S02_other_pdf>>) =>
           [k \in 1..Len(records) |-> records[k].student_id]
               = << <<"S", "0", "1">>, <<"S", "0", "2">> >>

\* C7 happens: the run on S01_thesis.pdf and S02_other.pdf without a
\* metadata file has finished with records S01 and S02, no author, the
\* stems as titles
TwoFilesNoMetadata ==
    /\ pc = "done"
    /\ ~csv.exists
    /\ Len(records) = 2
    /\ records[1].filename = S01_thesis_pdf
    /\ records[2].filename = S02_other_pdf
    /\ records[1].student_id = <<"S", "0", "1">>
    /\ records[2].student_id = <<"S", "0", "2">>
    /\ records[1].author_name = <<>>
    /\ records[2].proposal_title = <<"S", "0", "2", "_", "o", "t", "h", "e", "r">>

\* C8: normalize_value gives a result for every string, the result holds
\* only the characters a-z and 0-9, and normalizing the result again
\* gives the same result.
NormalizeIdempotent ==
    /\ pc \in {"again", "normalized"} =>
           /\ \A k \in 1..Len(normalized) :
                  IsLowerAscii(normalized[k]) \/ IsDigit(normalized[k])
           /\ Len(normalized) <= Len(value)
    /\ pc = "normalized" => renormalized = normalized

\* C8 happens: a string with an upper-case letter, the Kelvin sign and an
\* underscore has been normalized twice
MixedStringNormalized ==
    /\ pc = "normalized"
    /\ value = <<"KELVIN", "_", "A">>
    /\ normalized = <<"k", "a">>
    /\ renormalized = <<"k", "a">>

\* C8 happens for the empty string too
EmptyStringNormalized == pc = "normalized" /\ value = <<>> /\ normalized = <<>>

\* the entries of the lookup whose title key contains, or is contained
\* in, the normalized form of a title
PartialHits(title) ==
    {j \in 1..Len(metadata) :
        ~IsIdKey(metadata[j].key)
            /\ PartialMatch(normalize_value(title), metadata[j].key)}

\* C9 as stated: match_metadata returns what the first of the strategies
\* 1 exact title, 2 embedded ID, 3 substring, 4 word overlap that matches
\* any record gives; a word-overlap result means that no title key
\* contains, or is contained in, the normalized title of the document.
CascadeOrder ==
    \A k \in 1..Len(matched) :
        LET stem == Stem(pdf_files[k].name)
            by_title == normalize_value(stem) \in Keys(metadata)
            found == SearchProposalId(stem)
            by_id == found # <<>> /\ (IdPrefix \o Lower(found)) \in Keys(metadata)
            title == extract_title_from_pdf(pdf_files[k].text)
        IN  /\ by_title => matched[k].method = "filename"
            /\ (~by_title /\ by_id) => matched[k].method = "id"
            /\ (~by_title /\ ~by_id /\ title # <<>> /\ PartialHits(title) # {}) =>
                   /\ matched[k].method \in {"content", "partial"}
                   /\ \E j \in PartialHits(title) :
                          matched[k].record = <<metadata[j].record>>
            /\ matched[k].method = "word" => PartialHits(title) = {}

\* the rows of the metadata file whose title has the normalized form key
RowsTitled(key) ==
    {j \in 1..Len(csv.rows) :
        /\ Strip(csv.rows[j].proposal_title) # <<>>
        /\ normalize_value(Strip(csv.rows[j].proposal_title)) = key}

\* the record load_metadata makes of a row
RecordOfRow(row) ==
    [proposal_id |-> Strip(row.proposal_id), author_name |-> Strip(row.author_name),
     proposal_title |-> Strip(row.proposal_title)]

\* C10: a document whose normalized stem is the normalized title of a row
\* of the metadata file is matched by its file name, to the record of the
\* first such row, whatever ID its name holds and whatever its text is.
ExactTitleMatch ==
    \A k \in 1..Len(matched) :
        LET hits == RowsTitled(normalize_value(Stem(pdf_files[k].name)))
            first == CHOOSE j \in hits : \A h \in hits : j <= h
        IN  hits # {} =>
                /\ matched[k].method = "filename"
                /\ matched[k].record = <<RecordOfRow(csv.rows[first])>>

GraphTitlePdf ==
    <<"g", "r", "a", "p", "h", "_", "n", "e", "u", "r", "a", "l", "_",
      "n", "e", "t", "w", "o", "r", "k", "s", "_", "f", "o", "r", "_",
      "t", "r", "a", "f", "f", "i", "c", "_",
      "p", "r", "e", "d", "i", "c", "t", "i", "o", "n", ".", "p", "d", "f">>

\* C10 happens: graph_neural_networks_for_traffic_prediction.pdf has been
\* matched by its file name to the record P010 titled "Graph Neural
\* Networks for Traffic Prediction"
GraphTitleMatched ==
    /\ pc = "done"
    /\ \E k \in 1..Len(records) :
           /\ records[k].filename = GraphTitlePdf
           /\ matched[k].method = "filename"
           /\ records[k].proposal_id = <<"P", "0", "1", "0">>
           /\ Lower(records[k].proposal_title)
                  = [i \in 1..(Len(GraphTitlePdf) - 4) |->
                         IF GraphTitlePdf[i] = "_" THEN " " ELSE GraphTitlePdf[i]]

\* the P<digits> occurrences of a stem with an upper-case P, each with all
\* the digits that follow it
UpperIdOccurrences(stem) ==
    {SubSeq(stem, k, k + RunLen(stem, k + 1, DigitSet)) :
        k \in {h \in 1..Len(stem) : stem[h] = "P" /\ RunLen(stem, h + 1, DigitSet) > 0}}

\* the leftmost P<digits> or p<digits> of a stem, <<>> when it has none
LeftmostId(stem) ==
    LET at(k) == stem[k] \in {"P", "p"} /\ RunLen(stem, k + 1, DigitSet) > 0
    IN  IF \A k \in 1..Len(stem) : ~at(k) THEN <<>>
        ELSE LET k == CHOOSE h \in 1..Len(stem) : at(h) /\ \A g \in 1..(h - 1) : ~at(g)
             IN  SubSeq(stem, k, k + RunLen(stem, k + 1, DigitSet))

\* the rows of the metadata file whose proposal ID is id, whatever the case
RowsWithId(id) ==
    {j \in 1..Len(csv.rows) :
        /\ Strip(csv.rows[j].proposal_id) # <<>>
        /\ Lower(Strip(csv.rows[j].proposal_id)) = Lower(id)}

\* C11 as stated: a stem without exact title match that holds, anywhere, an
\* upper-case P<digits> equal to the proposal ID of a record of the lookup
\* is matched to the record under that id: key.
IdMatchAnywhere ==
    \A k \in 1..Len(matched) :
        LET stem == Stem(pdf_files[k].name)
        IN  RowsTitled(normalize_value(stem)) = {} =>
                \A id \in UpperIdOccurrences(stem) :
                    (\E j \in 1..Len(metadata) : metadata[j].record.proposal_id = id)
                        => matched[k].record
                               = <<Lookup(metadata, IdPrefix \o Lower(id))>>

\* C11: a stem without exact title match is matched by ID exactly when its
\* leftmost P<digits> or p<digits> is, whatever the case, the proposal ID of
\* a row of the metadata file, and then to the record of the first such row;
\* a later P<digits> of the stem is not looked up.
IdMatchLeftmost ==
    \A k \in 1..Len(matched) :
        LET stem == Stem(pdf_files[k].name)
            rows == RowsWithId(LeftmostId(stem))
            first == CHOOSE j \in rows : \A h \in rows : j <= h
        IN  RowsTitled(normalize_value(stem)) = {} =>
                /\ (LeftmostId(stem) # <<>> /\ rows # {}) =>
                       /\ matched[k].method = "id"
                       /\ matched[k].record = <<RecordOfRow(csv.rows[first])>>
                /\ matched[k].method = "id" => (LeftmostId(stem) # <<>> /\ rows # {})

\* C11 happens: p010_P9.pdf, whose later ID P9 no row has, is matched by
\* its leftmost ID, p010, to the record with proposal ID P010
LeftmostIdMatched ==
    /\ pc = "matched"
    /\ csv.rows = <<RowAnn>>
    /\ pdf_files[1].name = StemLowerIdFirst \o PdfSuffix
    /\ matched[1].method = "id"
    /\ matched[1].record = <<RecordOfRow(RowAnn)>>

\* the entries of the lookup under a key
EntriesAt(key) == {e \in 1..Len(metadata) : metadata[e].key = key}

\* C12: once load_metadata has run, every key a row produces (its
\* normalized title, id: with its lower-cased proposal ID) is in the lookup
\* exactly once, with the record of the first row of the file that produces
\* it; the lookup has no other key, and is empty without a metadata file.
FirstWriteWins ==
    pc # "main" =>
        /\ \A a, b \in 1..Len(metadata) : a # b => metadata[a].key # metadata[b].key
        /\ \A j \in 1..Len(csv.rows) :
               LET title == Strip(csv.rows[j].proposal_title)
                   id == Strip(csv.rows[j].proposal_id)
                   titled == RowsTitled(normalize_value(title))
                   first_titled == CHOOSE a \in titled : \A b \in titled : a <= b
                   with_id == RowsWithId(id)
                   first_with_id == CHOOSE a \in with_id : \A b \in with_id : a <= b
               IN  /\ title # <<>> =>
                       /\ EntriesAt(normalize_value(title)) # {}
                       /\ \A e \in EntriesAt(normalize_value(title)) :
                              metadata[e].record = RecordOfRow(csv.rows[first_titled])
                   /\ id # <<>> =>
                       /\ EntriesAt(IdPrefix \o Lower(id)) # {}
                       /\ \A e \in EntriesAt(IdPrefix \o Lower(id)) :
                              metadata[e].record = RecordOfRow(csv.rows[first_with_id])
        /\ \A e \in 1..Len(metadata) :
               \E j \in 1..Len(csv.rows) :
                   \/ /\ Strip(csv.rows[j].proposal_title) # <<>>
                      /\ metadata[e].key
                             = normalize_value(Strip(csv.rows[j].proposal_title))
                   \/ /\ Strip(csv.rows[j].proposal_id) # <<>>
                      /\ metadata[e].key
                             = IdPrefix \o Lower(Strip(csv.rows[j].proposal_id))
        /\ ~csv.exists => metadata = <<>>

\* C12 happens: the rows of Cy and then Ann, which have the same title key
\* and the same ID key, have been loaded, and both keys hold Cy's record
SecondRowNotRegistered ==
    /\ pc = "build"
    /\ csv.rows = <<RowCy, RowAnn>>
    /\ Len(metadata) = 2
    /\ metadata[1].key = <<"g", "r", "a", "p", "h", "n", "e", "u", "r", "a", "l",
                           "n", "e", "t", "w", "o", "r", "k", "s">>
    /\ metadata[2].key = <<"i", "d", ":", "p", "0", "1", "0">>
    /\ metadata[1].record.author_name = <<"C", "y">>
    /\ metadata[2].record.author_name = <<"C", "y">>

\* the words of a title that count for the overlap: lower-cased, without
\* the stop words
CountedWords(title) == Words(Lower(title)) \ stop_words

\* the entries of the lookup under a title key whose record clears the
\* threshold against a document title: both word sets non-empty, and twice
\* the size of the intersection at least the size of the smaller set
ClearingEntries(title) ==
    {e \in 1..Len(metadata) :
        LET pdf_words == CountedWords(title)
            meta_words == CountedWords(metadata[e].record.proposal_title)
            smaller == IF Cardinality(pdf_words) <= Cardinality(meta_words)
                       THEN Cardinality(pdf_words) ELSE Cardinality(meta_words)
        IN  /\ ~IsIdKey(metadata[e].key)
            /\ pdf_words # {}
            /\ meta_words # {}
            /\ 2 * Cardinality(pdf_words \cap meta_words) >= smaller}

\* C13: for a document with an extracted title that has no exact match by
\* stem or by content title, no match by ID and no title key in a substring
\* relation with its normalized title, match_metadata returns the record of
\* the first entry, in insertion order, among the title-keyed entries that
\* clear the threshold, by the word-overlap return, and no match when no
\* entry clears it.
WordOverlapThreshold ==
    \A k \in 1..Len(matched) :
        LET stem == Stem(pdf_files[k].name)
            title == extract_title_from_pdf(pdf_files[k].text)
            clearing == ClearingEntries(title)
            first == CHOOSE e \in clearing : \A h \in clearing : e <= h
        IN  (/\ title # <<>>
             /\ RowsTitled(normalize_value(stem)) = {}
             /\ RowsWithId(LeftmostId(stem)) = {}
             /\ RowsTitled(normalize_value(title)) = {}
             /\ PartialHits(title) = {})
            => IF clearing = {}
               THEN matched[k] = NoMatch
               ELSE /\ matched[k].method = "word"
                    /\ matched[k].record = <<metadata[first].record>>

\* C13 happens: against the rows of Dee ("Of the": no counted word), Ann
\* ("Graph Neural Networks": 1 common word of 3) and Bob ("The Neural
\* Methods": 1 common word of 2), the title "Neural Coding Today" has been
\* matched to Bob's record by word overlap
ThresholdReachedByThirdRow ==
    /\ pc = "matched"
    /\ csv.rows = <<RowDee, RowAnn, RowBob>>
    /\ pdf_files[1] = Pdf(StemNotes, TextNeuralCoding)
    /\ PartialHits(extract_title_from_pdf(TextNeuralCoding)) = {}
    /\ matched[1].method = "word"
    /\ matched[1].record = <<RecordOfRow(RowBob)>>

Validated == pc \in {"key_assign", "key_done"} \/ (pc = "key_exit" /\ student_ids # <<>>)

\* the artifact names of the roster, student by student in roster order
\* and, for each student, in the order H1, H2, AI1, AI2
ExpectedArtifacts ==
    LET sources == << <<"H", "1">>, <<"H", "2">>, <<"A", "I", "1">>, <<"A", "I", "2">> >>
    IN  [n \in 1..(4 * Len(student_ids)) |->
            student_ids[((n - 1) \div 4) + 1] \o <<"_">> \o sources[((n - 1) % 4) + 1]
                \o <<".", "p", "d", "f">>]

\* C15: what validate_review_files returned is the list of the artifact
\* names of the roster that are absent from the directory, in roster
\* order: every absent one is in it, no present one is, and it is empty
\* exactly when every artifact exists.
MissingAreTheAbsent ==
    Validated =>
        /\ missing_files = SelectSeq(ExpectedArtifacts, LAMBDA name : name \notin directory)
        /\ \A n \in 1..Len(ExpectedArtifacts) :
               ExpectedArtifacts[n] \notin directory
                   <=> \E m \in 1..Len(missing_files) : missing_files[m] = ExpectedArtifacts[n]
        /\ \A m \in 1..Len(missing_files) :
               /\ missing_files[m] \notin directory
               /\ \E n \in 1..Len(ExpectedArtifacts) : ExpectedArtifacts[n] = missing_files[m]
        /\ missing_files = <<>>
               <=> \A n \in 1..Len(ExpectedArtifacts) : ExpectedArtifacts[n] \in directory

\* C15 happens: with the roster S01, S02, S03 and a directory that lacks
\* only S02_AI1.pdf, validate_review_files returned [S02_AI1.pdf]
OnlyS02AI1Missing ==
    /\ Validated
    /\ student_ids = <<StudentName(1), StudentName(2), StudentName(3)>>
    /\ Cardinality(directory) = 11
    /\ missing_files = << <<"S", "0", "2", "_", "A", "I", "1", ".", "p", "d", "f">> >>

\* some artifact of the roster is absent from the directory
SomeArtifactAbsent ==
    \E n \in 1..Len(ExpectedArtifacts) : ExpectedArtifacts[n] \notin directory

\* C16: key entries exist, and the key file differs from what it was before
\* the run, only after validate_review_files has returned the empty list
\* with every artifact of the roster present; a run with an absent artifact
\* never enters the assignment loop, ends with status 1, and leaves the key
\* file as it was (absent, or with its old content).
NoKeyBeforeValidation ==
    /\ (master_key_data # <<>> \/ key_file # old_key \/ pc \in {"key_assign", "key_done"})
           => (Validated /\ missing_files = <<>> /\ ~SomeArtifactAbsent)
    /\ SomeArtifactAbsent =>
           /\ master_key_data = <<>>
           /\ key_file = old_key
           /\ pc \notin {"key_assign", "key_done"}
           /\ exit_status # 0
    /\ exit_status = 1 => (key_file = old_key /\ master_key_data = <<>>)

\* C16 happens: a run with missing artifacts has ended, no key entry was
\* made and no key file exists
MissingArtifactNoKey ==
    /\ pc = "key_exit"
    /\ missing_files # <<>>
    /\ exit_status = 1
    /\ master_key_data = <<>>
    /\ old_key = NoKeyFile
    /\ key_file = NoKeyFile

\* C17 as stated: a run that found missing artifacts ends with a non-zero
\* status and has printed the name of every one of them.
EveryMissingNamePrinted ==
    (pc = "key_exit" /\ missing_files # <<>>) =>
        /\ exit_status > 0
        /\ \A m \in 1..Len(missing_files) :
               \E n \in 1..Len(printed.names) : printed.names[n] = missing_files[m]

\* the declared label set
DeclaredLabels ==
    { <<"R", "e", "v", "i", "e", "w", "_", "1">>, <<"R", "e", "v", "i", "e", "w", "_", "2">>,
      <<"R", "e", "v", "i", "e", "w", "_", "3">>, <<"R", "e", "v", "i", "e", "w", "_", "4">> }

\* the rows of the key a completed run wrote that carry a student ID
KeyRowsOf(id) == {n \in 1..Len(key_file.rows) : key_file.rows[n].Student_ID = id}

\* C18 as stated: in the key a completed run wrote, the public labels of
\* the entries of a student are pairwise distinct and are exactly the
\* declared label set.
LabelsBijectivePerStudent ==
    pc = "key_done" =>
        \A k \in 1..Len(student_ids) :
            LET rows == KeyRowsOf(student_ids[k])
            IN  /\ \A a, b \in rows :
                       a # b => key_file.rows[a].Public_Review_Name
                                    # key_file.rows[b].Public_Review_Name
                /\ {key_file.rows[a].Public_Review_Name : a \in rows} = DeclaredLabels

\* In the key a completed run wrote, the four entries made for one row of
\* the roster carry pairwise distinct labels, which are the declared set.
LabelsPermutedPerRosterRow ==
    pc = "key_done" =>
        /\ Len(key_file.rows) = 4 * Len(student_ids)
        /\ \A k \in 1..Len(student_ids) :
               /\ \A a, b \in 1..4 :
                      a # b => key_file.rows[4 * (k - 1) + a].Public_Review_Name
                                   # key_file.rows[4 * (k - 1) + b].Public_Review_Name
               /\ {key_file.rows[4 * (k - 1) + a].Public_Review_Name : a \in 1..4}
                      = DeclaredLabels

\* the registry: the provenance of an internal source
ProvenanceOf(source) ==
    IF source \in { <<"H", "1">>, <<"H", "2">> } THEN <<"H", "u", "m", "a", "n">>
    ELSE <<"A", "I">>

\* C19: every key entry, during the run and in the key written, is the
\* entry of a student of the roster and a source of the registry, in roster
\* and registry order: its Internal_Name is <student_id>_<source>.pdf and
\* its True_Source the provenance of that source, whatever its label.
TrueSourceFromRegistry ==
    LET sources == << <<"H", "1">>, <<"H", "2">>, <<"A", "I", "1">>, <<"A", "I", "2">> >>
        ok(rows) ==
            \A n \in 1..Len(rows) :
                LET id == student_ids[((n - 1) \div 4) + 1]
                    source == sources[((n - 1) % 4) + 1]
                IN  /\ rows[n].Student_ID = id
                    /\ rows[n].Internal_Name
                           = id \o <<"_">> \o source \o <<".", "p", "d", "f">>
                    /\ rows[n].True_Source = ProvenanceOf(source)
    IN  /\ ok(master_key_data)
        /\ pc = "key_done" => (key_file.exists /\ ok(key_file.rows))

\* C19 happens: a key was written in which S01_AI1.pdf has the label
\* Review_1 and the true source AI, and S01_H1.pdf the label Review_4 and
\* the true source Human
ShuffledLabelsFixedSources ==
    /\ pc = "key_done"
    /\ key_file.rows[1] = [ Student_ID |-> <<"S", "0", "1">>,
                            Internal_Name |-> <<"S", "0", "1", "_", "H", "1",
                                                ".", "p", "d", "f">>,
                            True_Source |-> <<"H", "u", "m", "a", "n">>,
                            Public_Review_Name |-> <<"R", "e", "v", "i", "e", "w", "_", "4">> ]
    /\ key_file.rows[3] = [ Student_ID |-> <<"S", "0", "1">>,
                            Internal_Name |-> <<"S", "0", "1", "_", "A", "I", "1",
                                                ".", "p", "d", "f">>,
                            True_Source |-> <<"A", "I">>,
                            Public_Review_Name |-> <<"R", "e", "v", "i", "e", "w", "_", "1">> ]

\* C20 as stated: in the key a completed run wrote, every Internal_Name is
\* in one row only and every student ID of the roster has four rows.
OneEntryPerStudentAndSource ==
    pc = "key_done" =>
        /\ \A a, b \in 1..Len(key_file.rows) :
               a # b => key_file.rows[a].Internal_Name # key_file.rows[b].Internal_Name
        /\ \A k \in 1..Len(student_ids) : Cardinality(KeyRowsOf(student_ids[k])) = 4

\* the roster gives no student ID: the file is missing, has no line at all,
\* or has a header and no row with a non-blank first column
RosterUnusable ==
    \/ ~roster.exists
    \/ roster.lines = <<>>
    \/ StudentIdsOf(Tail(roster.lines)) = <<>>

\* C21, as stated: when the roster file is missing, completely empty, or has
\* a header and no row with a non-blank first column, the key generator ends
\* having printed an error line, with a non-zero status, no exception having
\* escaped, and with the key file as it was before the run
RosterErrorsReported ==
    (pc # "key_read" /\ RosterUnusable) =>
        /\ pc = "key_exit"
        /\ error # ""
        /\ raised = ""
        /\ exit_status > 0
        /\ key_file = old_key
        /\ master_key_data = <<>>

\* C21 for the rosters that have a first line: the missing file and the file
\* without student IDs are reported by the error branches
RosterErrorsReportedUnlessEmpty ==
    (pc # "key_read" /\ RosterUnusable /\ ~(roster.exists /\ roster.lines = <<>>)) =>
        /\ pc = "key_exit"
        /\ error \in {RosterNotFound, NoStudentIds}
        /\ raised = ""
        /\ exit_status > 0
        /\ key_file = old_key
        /\ master_key_data = <<>>

\* a roster file of zero bytes was read
EmptyRosterRead == pc = "key_exit" /\ roster.exists /\ roster.lines = <<>>

\* the file is as it was before the run: absent, or left by an earlier run
Untouched(file) == file \in {NoFile, OldStudents, OldMapping}

\* C21, the roster builder: a data directory that is missing or holds no PDF
\* file ends the run with an error line and status 1, and neither
\* students.csv nor proposal_mapping.csv is written
DataDirErrorsAbort ==
    (pc # "start" /\ (~data_dir.exists \/ data_dir.files = <<>>)) =>
        /\ pc = "exit"
        /\ error \in {DataDirMissing, NoPdfFiles}
        /\ raised = ""
        /\ exit_status = 1
        /\ Untouched(students_file)
        /\ Untouched(mapping_file)
        /\ records = <<>>

DataDirWithoutPdfRefused == pc = "exit" /\ data_dir.exists /\ error = NoPdfFiles

\* the (student_id, proposal_id, filename) triples of the records
RecordTriples ==
    [k \in 1..Len(records) |->
        [student_id |-> records[k].student_id, proposal_id |-> records[k].proposal_id,
         filename |-> records[k].filename]]

\* the triples of the rows read back
TableTriples == [k \in 1..Len(table) |-> RowTriple(table[k])]

\* the table was written by this run from the records, and read back
WrittenAndRead == pc = "table_read" /\ mapping_file.rows = write_mapping_csv(records)

\* C22, as stated: the table written from the records and read back row by
\* row gives the (student_id, proposal_id, filename) triples of the records,
\* in the order of the records
RoundTripTriples == WrittenAndRead => TableTriples = RecordTriples

\* the cells of column c of the table as written
WrittenColumn(c) == [k \in 1..Len(mapping_file.rows) |-> mapping_file.rows[k][c]]

\* C22 for the tables whose Proposal_ID and Student_ID columns pd.read_csv
\* keeps as text and whose file names have no blank at either end: the
\* triples come back as written
RoundTripOfTextTables ==
    (/\ WrittenAndRead
     /\ ColumnKind(WrittenColumn(1)) = "object"
     /\ ColumnKind(WrittenColumn(2)) = "object"
     /\ \A k \in 1..Len(records) :
            /\ Strip(records[k].filename) = records[k].filename
            /\ ~IsNa(records[k].proposal_id))
        => TableTriples = RecordTriples

\* the one proposal file graph_neural.pdf, matched to the metadata row of
\* proposal ID 007, was written to the table and read back
LeadingZeroIdReadBack ==
    /\ WrittenAndRead
    /\ Len(records) = 1
    /\ records[1].proposal_id = <<"0", "0", "7">>
    /\ table[1][1] = <<"7">>

\* the loop over student_ids has a student left to take
StudentLeft ==
    pc = "key_assign" /\ Len(master_key_data) < Len(student_ids) * Len(SOURCE_TYPES)

\* the turn of the loop that gives label to the source at position i
CanAssign(i, label) ==
    ENABLED (AssignStudent
                /\ master_key_data'[Len(master_key_data) + i].Public_Review_Name = label)

\* C23: the list bound to PUBLIC_REVIEW_NAMES stays the declared list, every
\* shuffle starts from a copy of it in the declared order, and whatever
\* entries the earlier students received, the next student can receive
\* every label on every source, Human and AI
LabelDrawsIndependent ==
    /\ label_list = PUBLIC_REVIEW_NAMES
    /\ names_copy \in {<<>>, PUBLIC_REVIEW_NAMES}
    /\ (master_key_data # <<>> => names_copy = PUBLIC_REVIEW_NAMES)
    /\ StudentLeft =>
           \A i \in 1..Len(SOURCE_TYPES) : \A label \in Range(PUBLIC_REVIEW_NAMES) :
               CanAssign(i, label)

\* two students received different orderings, neither the declared one, and
\* a third student is still to be served
TwoStudentsDifferentOrders ==
    /\ StudentLeft
    /\ Len(master_key_data) = 2 * Len(SOURCE_TYPES)
    /\ master_key_data[1].Student_ID # master_key_data[5].Student_ID
    /\ master_key_data[1].Public_Review_Name # master_key_data[5].Public_Review_Name
    /\ master_key_data[1].Public_Review_Name # PUBLIC_REVIEW_NAMES[1]
    /\ master_key_data[5].Public_Review_Name # PUBLIC_REVIEW_NAMES[1]

\* the lines of the review CSV as process_reviews reads them
ReviewFrame == ReviewRows(review_csv.lines)

\* the contents of the lines that map to the student, in the order of the CSV
MappedContents(id) ==
    LET mapped == SelectSeq(ReviewFrame, LAMBDA row : StudentOfRow(table, row) = id)
    IN  [k \in 1..Len(mapped) |-> mapped[k].content]

\* the students to whom a line of the review CSV maps
MappedStudents ==
    {StudentOfRow(table, ReviewFrame[k]) : k \in 1..Len(ReviewFrame)} \ {<<>>}

\* the slots and texts saved for the student, in the order of the calls
SavedFor(id) ==
    LET calls == SelectSeq(saved, LAMBDA call : call.student_id = id)
    IN  [k \in 1..Len(calls) |-> <<calls[k].source_id, calls[k].text>>]

\* the run went through the saving loop and returned
ReviewsProcessed ==
    pc = "rev_end" /\ error = "" /\ raised = "" /\ notice = ""

\* the files of the human slots of the student, as PDF or as text
HumanSlotFiles(id) ==
    {SlotFile(id, source_id, suffix) :
        source_id \in {<<"H", "1">>, <<"H", "2">>}, suffix \in {PdfSuffix, TxtSuffix}}

\* C24: when process_reviews has returned, a student with mapped lines has
\* exactly the two saved slots H1 and H2, H1 with the content of the first
\* mapped line and H2 with the content of the second or, with one mapped
\* line, the content of the first followed by the note; nothing else is
\* saved, and no file is there for a student without a mapped line other
\* than the files present before the run
HumanSlotsFromFirstTwoLines ==
    ReviewsProcessed =>
        /\ \A id \in MappedStudents :
               /\ SavedFor(id) =
                      << <<<<"H", "1">>, MappedContents(id)[1]>>,
                         <<<<"H", "2">>,
                           IF Len(MappedContents(id)) >= 2 THEN MappedContents(id)[2]
                           ELSE MappedContents(id)[1] \o DuplicateNote>> >>
               /\ HumanSlotFiles(id) \cap directory # {}
        /\ \A k \in 1..Len(saved) : saved[k].student_id \in MappedStudents
        /\ Len(saved) = 2 * Cardinality(MappedStudents)
        /\ \A name \in directory :
               \/ name \in UNION ReviewDirectories
               \/ \E id \in MappedStudents : name \in HumanSlotFiles(id)

\* three lines map to one student: two slots were saved, and the content of
\* the third line was not
ThirdLineNotSaved ==
    /\ ReviewsProcessed
    /\ \E id \in MappedStudents : Len(MappedContents(id)) = 3
    /\ Len(saved) = 2
    /\ \A k \in 1..Len(saved) : saved[k].text # <<"r", "3">>

\* one line maps to a student: H2 was saved with the note
SingleLineDuplicated ==
    /\ ReviewsProcessed
    /\ \E id \in MappedStudents :
           /\ Len(MappedContents(id)) = 1
           /\ SavedFor(id)[2][2] = MappedContents(id)[1] \o DuplicateNote

\* process_reviews has ended after create_proposal_mapping was called
MappingAsked == pc = "rev_end" /\ review_csv.exists /\ review_csv.readable

\* C25, as stated: when proposal_mapping.csv does not exist the template is
\* written, the request to edit it is printed and process_reviews returns
\* without an exception and without a saved review; the same when the file
\* exists and cannot be read
MissingMappingReturnsNormally ==
    MappingAsked =>
        /\ mapping_file.exists
        /\ (mapping_file = TemplateMapping \/ read_fails) =>
               /\ notice # ""
               /\ raised = ""
               /\ exit_status = 0
               /\ saved = <<>>
               /\ directory \in ReviewDirectories

\* C25 for the file that exists and cannot be read: create_proposal_mapping
\* returns the pair (None, None) and process_reviews prints the request and
\* returns
UnreadableMappingReturnsNormally ==
    (MappingAsked /\ read_fails) =>
        /\ error = MappingUnreadable
        /\ notice = PleaseCreateMapping
        /\ raised = ""
        /\ exit_status = 0
        /\ saved = <<>>
        /\ directory \in ReviewDirectories

\* the mapping file did not exist: the template was written
TemplateWritten == pc = "rev_end" /\ mapping_file = TemplateMapping /\ notice = PleaseEditTemplate

\* ---- dashes

\* the positions where the lines of text start
LineStarts(text) == {1} \cup {k + 1 : k \in {j \in 1..Len(text) : text[j] = "\n"}}

\* the start of line i of text
LineStart(text, i) ==
    CHOOSE k \in LineStarts(text) : Cardinality({j \in LineStarts(text) : j < k}) = i - 1

\* a line of text starts at k with the bullet marker
BulletAt(text, k) == k \in LineStarts(text) /\ HasAt(text, k, BulletMarker)

\* every dash of text is the dash of a bullet marker at the start of a line
DashesInBulletsOnly(text) ==
    \A k \in 1..Len(text) : text[k] \in FORBIDDEN_DASHES => k > 2 /\ BulletAt(text, k - 2)

\* every line of before that starts with the bullet marker is a line of after
\* that starts with it
BulletsKept(before, after) ==
    /\ Cardinality(LineStarts(after)) = Cardinality(LineStarts(before))
    /\ \A i \in 1..Cardinality(LineStarts(before)) :
          BulletAt(before, LineStart(before, i)) => BulletAt(after, LineStart(after, i))

HasPlaceholder(text) == \E k \in 1..Len(text) : HasAt(text, k, BulletPlaceholder)

Cleaned ==
    /\ (pc \in {"clean_again", "cleaned"} =>
          DashesInBulletsOnly(cleaned_text) /\ BulletsKept(dash_text, cleaned_text))
    /\ (pc = "cleaned" => recleaned_text = cleaned_text)

\* C26 (as stated; violated): the text remove_forbidden_dashes returns has a
\* dash only in a bullet marker "  - " that starts a line, every line of the
\* input that starts with the marker still starts with it, and applying the
\* function to its result changes nothing.
DashesRemoved == Cleaned

\* C26, for the inputs that do not hold the placeholder text: as above.
DashesRemovedWithoutPlaceholder == ~HasPlaceholder(dash_text) => Cleaned

\* a text with the placeholder text in it was cleaned, and cleaned again
PlaceholderTextCleaned ==
    /\ pc = "cleaned"
    /\ HasPlaceholder(dash_text)
    /\ ~DashesInBulletsOnly(cleaned_text)
    /\ recleaned_text # cleaned_text

\* a text with a bullet marker and other dashes was cleaned
BulletAndDashCleaned ==
    /\ pc = "cleaned"
    /\ ~HasPlaceholder(dash_text)
    /\ \E k \in 1..Len(dash_text) : BulletAt(dash_text, k)
    /\ cleaned_text # dash_text

\* ---- AI reviews

\* the calls of call_ai_api made for proposal file k
AttemptsFor(k) == SelectSeq(attempts, LAMBDA a : a.file = k)

\* the reviews saved for proposal file k
AiSavedFor(k) == SelectSeq(saved, LAMBDA e : e.file = k)

\* generate_reviews_for_student has returned for proposal file k
Returned(k) == k >= 1 /\ (k < file_pos \/ (k = file_pos /\ pc \in {"ai_main", "ai_end"}))

\* review n of proposal file k was generated and saved
GeneratedAndSaved(k, n) ==
    \E a \in 1..Len(AttemptsFor(k)) :
        /\ AttemptsFor(k)[a].review_number = n
        /\ AttemptsFor(k)[a].response # <<>>
        /\ \E e \in 1..Len(AiSavedFor(k)) : AiSavedFor(k)[e].source_id = AiSlot(n)

BothReviewsSaved ==
    /\ pc = "ai_main"
    /\ file_pos >= 1
    /\ GeneratedAndSaved(file_pos, 1)
    /\ GeneratedAndSaved(file_pos, 2)
    /\ result = "True"

\* C26, the saved texts: every AI review text that was saved is
\* remove_forbidden_dashes of what the API returned for that review, and has
\* its dashes in line-leading bullet markers only.
SavedTextsCleaned ==
    \A e \in 1..Len(saved) :
        /\ \E a \in 1..Len(attempts) :
              /\ attempts[a].file = saved[e].file
              /\ AiSlot(attempts[a].review_number) = saved[e].source_id
              /\ saved[e].text = remove_forbidden_dashes(attempts[a].response)
        /\ DashesInBulletsOnly(saved[e].text)

\* ---- the saved slots and the validator

\* a script counted slot source_id of the student as saved
Counted(id, source_id) ==
    \E e \in 1..Len(saved) : saved[e].student_id = id /\ saved[e].source_id = source_id

\* a script counted slot source_id of the student as saved in a PDF file
CountedAsPdf(id, source_id) ==
    \E e \in 1..Len(saved) :
        saved[e].student_id = id /\ saved[e].source_id = source_id /\ saved[e].is_pdf

SlotIds == {SOURCE_TYPES[j].id : j \in 1..Len(SOURCE_TYPES)}

\* C28 (as stated; violated): every slot a script counted as saved is a file
\* the validator accepts, and when the scripts counted all four slots of
\* every student of the roster, validate_review_files returns the empty list.
CountedSlotsAccepted ==
    /\ \A e \in 1..Len(saved) :
          ReviewFileName(saved[e].student_id, saved[e].source_id) \in directory
    /\ (Validated /\ \A k \in 1..Len(student_ids) : \A slot \in SlotIds :
                        Counted(student_ids[k], slot))
          => missing_files = <<>>

\* C28 (amended): every slot a script counted as saved in a PDF file is a
\* file the validator accepts, and when the scripts counted all four slots
\* of every student of the roster as saved in PDF files,
\* validate_review_files returns the empty list.
PdfSlotsAccepted ==
    /\ \A e \in 1..Len(saved) :
          saved[e].is_pdf =>
              ReviewFileName(saved[e].student_id, saved[e].source_id) \in directory
    /\ (Validated /\ \A k \in 1..Len(student_ids) : \A slot \in SlotIds :
                        CountedAsPdf(student_ids[k], slot))
          => missing_files = <<>>

\* the four slots of two students were saved in PDF files and the validator
\* found nothing missing
AllSlotsSavedAsPdf ==
    /\ Validated
    /\ Len(student_ids) = 2
    /\ \A k \in 1..Len(student_ids) : \A slot \in SlotIds : CountedAsPdf(student_ids[k], slot)
    /\ missing_files = <<>>

\* the four slots of every student were counted, one of them saved in a
\* text file, and the validator reports it missing
TextSlotReportedMissing ==
    /\ Validated
    /\ \A k \in 1..Len(student_ids) : \A slot \in SlotIds : Counted(student_ids[k], slot)
    /\ missing_files # <<>>

\* ---- the student IDs of the AI generator and of the roster

\* find_proposal_files has run after the roster builder
FilesFound == pc = "proposals_found"

\* proposal_mapping.csv is the one this run of the roster builder wrote
TableWritten == mapping_file = [exists |-> TRUE, rows |-> write_mapping_csv(records)]

\* the student ID under which the AI generator takes the file
AiIdOf(name) ==
    LET e == CHOOSE j \in 1..Len(proposal_files) : proposal_files[j].name = name
    IN  proposal_files[e].student_id

\* the AI generator takes the file of record k under the record's student ID
SameId(k) == AiIdOf(records[k].filename) = records[k].student_id

NumericIds == \A k \in 1..Len(records) : IsIntText(records[k].student_id)

\* the student ID of a record as the table gives it back
ReadBackId(id) == IF NumericIds THEN DropZeros(id) ELSE id

\* the name is a key of the mapping the AI generator loads
Listed(name) == \E k \in 1..Len(table) : FilenameOf(table[k]) = name

\* S, one to four digits and "_", or S, digits and ".pdf"
StandardName(name) ==
    LET digits == RunLen(name, 2, DigitSet)
    IN  /\ Len(name) > 1
        /\ name[1] = "S"
        /\ digits >= 1
        /\ \/ digits <= 4 /\ Len(name) > digits + 1 /\ name[digits + 2] = "_"
           \/ SubSeq(name, digits + 2, Len(name)) = PdfSuffix

UnlistedStandardName ==
    /\ FilesFound
    /\ ~TableWritten
    /\ \E k \in 1..Len(records) :
          /\ StandardName(records[k].filename)
          /\ ~Listed(records[k].filename)
          /\ ~SameId(k)

\* the student IDs are numbers, and the AI generator takes the files under
\* the numbers without their leading zeros
NumericIdsReadBack ==
    /\ FilesFound
    /\ TableWritten
    /\ NumericIds
    /\ \E k \in 1..Len(records) : ~SameId(k)

\* ---- the proposal IDs of the roster and the lookup of process_reviews

\* build_records has returned
RecordsBuilt ==
    pc \in {"done", "students_written", "tables_written", "table_read", "proposals_found"}

\* the table this run wrote has been read back
TableRead == pc \in {"table_read", "proposals_found"} /\ TableWritten

\* the proposal ID of record k as pd.read_csv gives it back from the table
PidOf(k) ==
    Strip(StrOfCell(ColumnKind([j \in 1..Len(records) |-> records[j].proposal_id]),
                    records[k].proposal_id))

\* the last record with the proposal ID of record k
LastWithPid(k) ==
    CHOOSE j \in 1..Len(records) :
        PidOf(j) = PidOf(k) /\ \A h \in 1..Len(records) : PidOf(h) = PidOf(k) => h <= j

\* C30 (as stated; violated): the proposal IDs of the records are pairwise
\* distinct, and the lookup of process_reviews gives for the proposal ID of
\* every record the student of that record.
ProposalIdsDistinct ==
    /\ RecordsBuilt =>
          \A a, b \in 1..Len(records) : a # b => records[a].proposal_id # records[b].proposal_id
    /\ TableRead =>
          \A k \in 1..Len(records) :
              MappedStudent(table, PidOf(k)) = ReadBackId(records[k].student_id)

\* C30 (amended): the student IDs of the records are pairwise distinct, the
\* proposal IDs need not be, and the lookup of process_reviews gives for the
\* proposal ID of every record one student, that of the last record with
\* this proposal ID.
LastRecordOfProposalId ==
    /\ RecordsBuilt =>
          \A a, b \in 1..Len(records) : a # b => records[a].student_id # records[b].student_id
    /\ TableRead =>
          \A k \in 1..Len(records) :
              MappedStudent(table, PidOf(k)) = ReadBackId(records[LastWithPid(k)].student_id)

\* two records of different students have one proposal ID, and the lookup
\* gives the student of the second
TwoRecordsOneProposalId ==
    /\ TableRead
    /\ \E a, b \in 1..Len(records) :
          /\ a < b
          /\ records[a].proposal_id = records[b].proposal_id
          /\ LastWithPid(a) = b
          /\ MappedStudent(table, PidOf(a)) = records[b].student_id
          /\ records[a].student_id # records[b].student_id

=============================================================================
